---- MODULE Spec2Model ----
(***************************************************************************)
(* Name resolution of source3/libsmb/namequery.c: the pipeline driver      *)
(* internal_resolve_name with its wrapper resolve_name, the duplicate      *)
(* removal remove_duplicate_addrs2, the server affinity (SAF) cache, and   *)
(* the NetBIOS requests name_query, name_queries and query_wins_list.      *)
(*                                                                         *)
(* Modelling decisions:                                                    *)
(*  - talloc allocations never fail (the NT_STATUS_NO_MEMORY returns that  *)
(*    only follow a failed allocation are left out), and neither do the    *)
(*    socket calls below nb_trans_send;                                    *)
(*  - an address is the pair of its family and its canonical text;         *)
(*  - a name is the tuple of its characters, so strlen and strchr are      *)
(*    computed on it;                                                      *)
(*  - every behaviour of SpecResolve follows one (name, name_type) key:    *)
(*    the key is drawn in Init and every call of the behaviour uses it,    *)
(*    the resolve order is drawn anew at each call.                        *)
(***************************************************************************)
EXTENDS Integers, Sequences, FiniteSets, TLC

VARIABLES
    now,              \* time(NULL), in seconds
    name,             \* the name under resolution (tuple of characters)
    name_type,        \* the NetBIOS name type the caller asks for
    pc,               \* "idle" | "loop" | "done" | "crashed"
    fn,               \* the entry point that is running, "none" when idle
    resolve_order,    \* internal_resolve_name: the order being iterated
    i,                \* internal_resolve_name: loop index (1-based)
    cur_type,         \* internal_resolve_name: local name_type (kdc overwrites it)
    status,           \* NTSTATUS returned by internal_resolve_name
    iplist,           \* *return_iplist of internal_resolve_name
    icount,           \* count the last dispatched backend returned
    path,             \* which return of internal_resolve_name was taken
    dispatched,       \* history: the backends dispatched during this call
    cache_consulted,  \* history: namecache_fetch was called during this call
    orig_order,       \* history: the resolve order as the caller passed it
    live_at_entry,    \* history: the key had an unexpired entry at call time
    stored_result,    \* history: the list returned by the call that stored the entry
    prefer_ipv4,      \* resolve_name: its prefer_ipv4 argument
    ret_ok,           \* resolve_name: the bool it returns
    return_ss,        \* resolve_name: *return_ss
    namecache,        \* the name cache: key -> entry
    dd_in,            \* remove_duplicate_addrs2 called on its own: the input
    dd_out,           \* remove_duplicate_addrs2 called on its own: the output
    gencache,         \* the TTL key/value store below the SAF cache
    saf_op,           \* the last SAF operation and its arguments
    saf_ret,          \* what the last SAF operation returned
    saf_last,         \* history: per domain key, the last saf_store not yet deleted
    saf_deleted,      \* history: per domain key, what the last delete found ("no": stored since)
    nq,               \* one name_query request: its state and what it returned
    nqs,              \* one name_queries request with its sub-requests
    wl,               \* one query_wins_list request and the servers it marked dead
    rw,               \* one resolve_wins request with its chains
    ads,              \* one resolve_ads call with its A and AAAA lookups
    srt,              \* the last call of prioritize_ipv4_list or addr_compare on its own
    spr,              \* one sock_packet_read request: the race of the socket and the relay reader
    tr,               \* one NBT request with its nb_trans transaction and its deadline
    wq,               \* resolve_wins requests, one after the other, with the table of dead WINS servers
    gd                \* one call of get_dc_list

vars == <<now, name, name_type, pc, fn, resolve_order, i, cur_type, status,
          iplist, icount, path, dispatched, cache_consulted, orig_order,
          live_at_entry, stored_result, prefer_ipv4, ret_ok, return_ss,
          namecache, dd_in, dd_out, gencache, saf_op, saf_ret, saf_last,
          saf_deleted, nq, nqs, wl,
          rw,
          ads,
          srt,
          spr,
          tr,
          wq,
          gd>>

resolveVars == <<name, name_type, pc, fn, resolve_order, i, cur_type, status,
                 iplist, icount, path, dispatched, cache_consulted, orig_order,
                 live_at_entry, stored_result, prefer_ipv4, ret_ok, return_ss,
                 namecache, dd_in, dd_out>>

safVars == <<gencache, saf_op, saf_ret, saf_last, saf_deleted>>

nbtVars == <<nq, nqs, wl, rw, ads, srt, spr, tr, wq, gd>>

(***************************************************************************)
(* Bounds of the model                                                     *)
(***************************************************************************)
MaxList == 2          \* longest address list a backend or a cache entry holds
MaxTicks == 2         \* how many times the clock advances in a behaviour

(***************************************************************************)
(* Program constants                                                       *)
(***************************************************************************)
PORT_NONE == 0
KDC_NAME_TYPE == 56540          \* 0xDCDC
MAX_NETBIOSNAME_LEN == 16
SAF_TTL == 900
SAFJOIN_TTL == 3600
name_cache_timeout == 660       \* lp_name_cache_timeout()

None == "(null)"                \* a NULL pointer

(***************************************************************************)
(* Addresses                                                               *)
(***************************************************************************)
V4(a) == [family |-> "AF_INET", addr |-> a]
V6(a) == [family |-> "AF_INET6", addr |-> a]

Zero4 == V4("0.0.0.0")
Zero6 == V6("::")
Host4 == V4("10.0.0.5")
Host6 == V6("fd00::5")
Bcast4 == V4("255.255.255.255")

is_zero_addr(ss) ==
    \/ ss.family = "AF_INET" /\ ss.addr = "0.0.0.0"
    \/ ss.family = "AF_INET6" /\ ss.addr = "::"

is_broadcast_addr(ss) == ss.family = "AF_INET" /\ ss.addr = "255.255.255.255"

sockaddr_equal(a, b) == a.family = b.family /\ a.addr = b.addr

\* zero_sockaddr sets the family to AF_INET
zero_sockaddr == Zero4

Service(ss, port) == [ss |-> ss, port |-> port]

(***************************************************************************)
(* remove_duplicate_addrs2                                                 *)
(***************************************************************************)
\* the first loop: every later entry equal in (address, port) to a non-zero
\* entry i has its address zeroed
RECURSIVE ZeroDuplicates(_, _)
ZeroDuplicates(l, k) ==
    IF k > Len(l) THEN l
    ELSE IF is_zero_addr(l[k].ss) THEN ZeroDuplicates(l, k + 1)
    ELSE ZeroDuplicates(
            [j \in 1..Len(l) |->
                IF j > k /\ sockaddr_equal(l[k].ss, l[j].ss) /\ l[k].port = l[j].port
                THEN [l[j] EXCEPT !.ss = zero_sockaddr]
                ELSE l[j]],
            k + 1)

\* the second loop: ARRAY_DEL_ELEMENT of every zero address
RECURSIVE DeleteZeroAddrs(_)
DeleteZeroAddrs(l) ==
    IF l = <<>> THEN <<>>
    ELSE IF is_zero_addr(Head(l).ss) THEN DeleteZeroAddrs(Tail(l))
    ELSE <<Head(l)>> \o DeleteZeroAddrs(Tail(l))

\* faulty variant: the duplicates are zeroed but the list is not compacted
remove_duplicate_addrs2_nocompact(l) == ZeroDuplicates(l, 1)

remove_duplicate_addrs2(l) == DeleteZeroAddrs(ZeroDuplicates(l, 1))

(***************************************************************************)
(* Names                                                                   *)
(***************************************************************************)
Lit5 == <<"1", "0", ".", "0", ".", "0", ".", "5">>
Lit6 == <<"f", "d", "0", "0", ":", ":", "5">>
LitZero4 == <<"0", ".", "0", ".", "0", ".", "0">>
LitZero6 == <<":", ":">>
Name15 == <<"f", "i", "l", "e", "s", "e", "r", "v", "e", "r", "0", "0", "0", "0", "1">>
Name16 == Name15 \o <<"x">>
DotName == <<"d", "c", "1", ".", "e", "x">>

Names == {Lit5, Lit6, LitZero4, LitZero6, Name15, Name16, DotName}

\* the name types a caller passes: 0x20, 0x1c, 0x1d
NameTypes == {32, 28, 29}

is_ipaddress(n) == n \in {Lit5, Lit6, LitZero4, LitZero6}

\* interpret_string_addr(&ss, name, AI_NUMERICHOST) of a numeric literal
interpret_string_addr(n) ==
    CASE n = Lit5 -> Host4
      [] n = Lit6 -> Host6
      [] n = LitZero4 -> Zero4
      [] n = LitZero6 -> Zero6

strlen(n) == Len(n)

\* strchr(name, c) != NULL
strchr(n, c) == \E k \in 1..Len(n) : n[k] = c

(***************************************************************************)
(* Resolve orders                                                          *)
(***************************************************************************)
\* resolve_order == NULL (the pointer), kept apart from the empty list
NULL_ORDER == <<None>>

Orders ==
    { NULL_ORDER,
      <<>>,
      <<"NULL">>,
      <<"NULL", "host">>,
      <<"host">>,
      <<"lmhosts", "wins", "host", "bcast">>,
      <<"kdc", "host">>,
      <<"WINS", "bogus", "ads">>,
      <<"bcast", "lmhosts">> }

\* strequal compares without regard to case, strcmp does not
ToLower(t) ==
    CASE t = "WINS" -> "wins"
      [] t = "NULL" -> "null"
      [] OTHER -> t

strequal(a, b) == ToLower(a) = ToLower(b)

IsNbtTag(tok) ==
    strequal(tok, "lmhosts") \/ strequal(tok, "wins") \/ strequal(tok, "bcast")

filter_out_nbt_lookup(order) == SelectSeq(order, LAMBDA tok : ~IsNbtTag(tok))

\* faulty variant: the cutoff is MAX_NETBIOSNAME_LEN, one character too late
NbtIneligibleLate(n) == strlen(n) > MAX_NETBIOSNAME_LEN \/ strchr(n, ".")

\* the name cannot travel in a NetBIOS name
NbtIneligible(n) == strlen(n) > MAX_NETBIOSNAME_LEN - 1 \/ strchr(n, ".")

(***************************************************************************)
(* The backends, as internal_resolve_name sees them: each returns a        *)
(* status and, on NT_STATUS_OK, a list of addresses                        *)
(***************************************************************************)
SeqsUpTo(S, n) == UNION {[1..k -> S] : k \in 0..n}

\* what a lookup can deliver: lists of real addresses, and lists that may
\* also hold zero addresses or be empty
NonZeroLists == SeqsUpTo({Host4, Host6, Bcast4}, MaxList) \ {<<>>}
AnyLists == SeqsUpTo({Zero4, Host4, Host6, Bcast4}, MaxList)

Outcome(st, l) == [status |-> st, ss_list |-> l]

\* resolve_hosts: getaddrinfo, zero addresses dropped, empty is a failure
resolve_hosts(type) ==
    IF type # 32 /\ type # 0
    THEN {Outcome("NT_STATUS_INVALID_PARAMETER", <<>>)}
    ELSE {Outcome("NT_STATUS_OK", l) : l \in NonZeroLists}
         \cup {Outcome("NT_STATUS_UNSUCCESSFUL", <<>>)}

\* resolve_ads: a failed SRV query is an error, but no SRV record and no
\* address at all are reported as NT_STATUS_OK with a count of zero
resolve_ads(type) ==
    IF type # 28 /\ type # KDC_NAME_TYPE /\ type # 27
    THEN {Outcome("NT_STATUS_INVALID_PARAMETER", <<>>)}
    ELSE {Outcome("NT_STATUS_OK", l) : l \in AnyLists}
         \cup {Outcome("NT_STATUS_NOT_FOUND", <<>>)}

\* resolve_lmhosts_file_as_sockaddr: the lmhosts file reader
resolve_lmhosts_file_as_sockaddr ==
    {Outcome("NT_STATUS_OK", l) : l \in NonZeroLists}
    \cup {Outcome("NT_STATUS_UNSUCCESSFUL", <<>>)}

\* resolve_wins: the addresses of the first tag that answers
resolve_wins ==
    {Outcome("NT_STATUS_OK", l) : l \in NonZeroLists}
    \cup {Outcome("NT_STATUS_NOT_FOUND", <<>>), Outcome("NT_STATUS_IO_TIMEOUT", <<>>)}

\* name_resolve_bcast: name_queries over the broadcast addresses
name_resolve_bcast ==
    {Outcome("NT_STATUS_OK", l) : l \in NonZeroLists}
    \cup {Outcome("NT_STATUS_NOT_FOUND", <<>>), Outcome("NT_STATUS_INVALID_PARAMETER", <<>>)}

(***************************************************************************)
(* The name cache (namecache_store / namecache_fetch over gencache)        *)
(***************************************************************************)
NoEntry == [addrs |-> <<>>, expire |-> 0]

CacheKey(n, type) == <<n, type>>

CacheKeys == {CacheKey(n, t) : n \in Names, t \in NameTypes \cup {KDC_NAME_TYPE}}

\* gencache_get: an entry is delivered while its expiry lies in the future
EntryLive(e, t) == e.expire > t

namecache_fetch_ok(cache, n, type, t) ==
    CacheKey(n, type) \in DOMAIN cache /\ EntryLive(cache[CacheKey(n, type)], t)

\* the addresses of the entry; the ports are not part of it
namecache_fetch(cache, n, type) == cache[CacheKey(n, type)].addrs

\* the synthetic KDC type is not cached
namecache_store(cache, n, type, sa_list, t) ==
    IF type = KDC_NAME_TYPE
    THEN cache
    ELSE [cache EXCEPT ![CacheKey(n, type)] =
             [addrs |-> sa_list, expire |-> t + name_cache_timeout]]

(***************************************************************************)
(* Conversions between the list types                                      *)
(***************************************************************************)
\* convert_ss2service: FALSE for an empty list or one of zero addresses only
convert_ss2service_ok(ss_list) ==
    /\ Len(ss_list) # 0
    /\ \E k \in 1..Len(ss_list) : ~is_zero_addr(ss_list[k])

\* convert_ss2service: the non-zero addresses, each with port PORT_NONE
convert_ss2service(ss_list) ==
    LET nz == SelectSeq(ss_list, LAMBDA ss : ~is_zero_addr(ss))
    IN  [k \in 1..Len(nz) |-> Service(nz[k], PORT_NONE)]

\* ip_service_to_samba_sockaddr: the addresses without their ports
ip_service_to_samba_sockaddr(l) == [k \in 1..Len(l) |-> l[k].ss]

\* faulty variant: the copy loop stops one entry early
CachedListOffByOne(sa_list) ==
    LET nz == SelectSeq(SubSeq(sa_list, 1, Len(sa_list) - 1), LAMBDA ss : ~is_zero_addr(ss))
    IN  remove_duplicate_addrs2([k \in 1..Len(nz) |-> Service(nz[k], 0)])

\* the cache-hit branch of internal_resolve_name: zero addresses skipped,
\* port 0 on each entry, then duplicate removal
CachedList(sa_list) ==
    LET nz == SelectSeq(sa_list, LAMBDA ss : ~is_zero_addr(ss))
    IN  remove_duplicate_addrs2([k \in 1..Len(nz) |-> Service(nz[k], 0)])

(***************************************************************************)
(* resolve_name: what it returns from the list of internal_resolve_name    *)
(***************************************************************************)
NoAddr == [family |-> "AF_UNSPEC", addr |-> ""]

Usable4(ss) == ~is_broadcast_addr(ss) /\ ss.family = "AF_INET"
Usable(ss) == ~is_broadcast_addr(ss)

\* the address of the first entry of l, if any
FirstAddr(l) == IF l = <<>> THEN NoAddr ELSE Head(l).ss

\* the tail of resolve_name: with prefer_ipv4 the first IPv4 address that is
\* no broadcast address, else the first address that is no broadcast address
ResolveNameReturn(pref, st, l) ==
    IF st # "NT_STATUS_OK" THEN NoAddr
    ELSE IF pref /\ SelectSeq(l, LAMBDA e : Usable4(e.ss)) # <<>>
         THEN FirstAddr(SelectSeq(l, LAMBDA e : Usable4(e.ss)))
    ELSE FirstAddr(SelectSeq(l, LAMBDA e : Usable(e.ss)))

(***************************************************************************)
(* internal_resolve_name                                                   *)
(***************************************************************************)
BackendOf(tok) ==
    CASE strequal(tok, "host") \/ strequal(tok, "hosts") -> "host"
      [] strequal(tok, "kdc") -> "kdc"
      [] strequal(tok, "ads") -> "ads"
      [] strequal(tok, "lmhosts") -> "lmhosts"
      [] strequal(tok, "wins") -> "wins"
      [] strequal(tok, "bcast") -> "bcast"
      [] OTHER -> "unknown"

\* the tag leads to a backend call: known tag, and 0x1d is not asked of WINS
Dispatches(tok, type) ==
    /\ BackendOf(tok) # "unknown"
    /\ ~(BackendOf(tok) = "wins" /\ type = 29)

BackendOutcomes(b, type) ==
    CASE b = "host" -> resolve_hosts(type)
      [] b = "kdc" -> resolve_ads(KDC_NAME_TYPE)
      [] b = "ads" -> resolve_ads(type)
      [] b = "lmhosts" -> resolve_lmhosts_file_as_sockaddr
      [] b = "wins" -> resolve_wins
      [] b = "bcast" -> name_resolve_bcast

\* the order the loop iterates: ["host"] for no order, the NetBIOS tags
\* filtered out for a name that cannot be a NetBIOS name
EffectiveOrder(n, order) ==
    LET o1 == IF order = NULL_ORDER \/ order = <<>> THEN <<"host">> ELSE order
    IN  IF NbtIneligible(n) THEN filter_out_nbt_lookup(o1) ELSE o1

\* every return of internal_resolve_name, and what resolve_name makes of it
Return(f, pref, st, l, pth) ==
    /\ pc' = "done"
    /\ status' = st
    /\ iplist' = l
    /\ path' = pth
    /\ return_ss' = IF f = "resolve_name" THEN ResolveNameReturn(pref, st, l) ELSE NoAddr
    /\ ret_ok' = (f = "resolve_name" /\ ResolveNameReturn(pref, st, l) # NoAddr)

\* faulty variant: the interpreted address is not copied into the list
LiteralBranchNoCopy(f, pref) ==
    /\ IF is_zero_addr(interpret_string_addr(name))
       THEN Return(f, pref, "NT_STATUS_UNSUCCESSFUL", <<>>, "literal")
       ELSE Return(f, pref, "NT_STATUS_OK", <<Service(zero_sockaddr, PORT_NONE)>>, "literal")
    /\ cache_consulted' = FALSE
    /\ live_at_entry' = FALSE
    /\ UNCHANGED <<resolve_order, i>>

\* the is_ipaddress branch
LiteralBranch(f, pref) ==
    /\ IF is_zero_addr(interpret_string_addr(name))
       THEN Return(f, pref, "NT_STATUS_UNSUCCESSFUL", <<>>, "literal")
       ELSE Return(f, pref, "NT_STATUS_OK",
                   <<Service(interpret_string_addr(name), PORT_NONE)>>, "literal")
    /\ cache_consulted' = FALSE
    /\ live_at_entry' = FALSE
    /\ UNCHANGED <<resolve_order, i>>

\* the name cache branch, taken on a hit
CacheBranch(f, pref) ==
    LET l == CachedList(namecache_fetch(namecache, name, name_type))
    IN  /\ IF Len(l) = 0
           THEN Return(f, pref, "NT_STATUS_UNSUCCESSFUL", <<>>, "cache")
           ELSE Return(f, pref, "NT_STATUS_OK", l, "cache")
        /\ UNCHANGED <<resolve_order, i>>

\* what follows the "NULL" check
SetOrder(f, pref, order) ==
    /\ resolve_order' = EffectiveOrder(name, order)
    /\ i' = 1
    /\ IF EffectiveOrder(name, order) = <<>>
       THEN Return(f, pref, "NT_STATUS_UNSUCCESSFUL", <<>>, "exhausted")
       ELSE /\ pc' = "loop"
            /\ status' = "NT_STATUS_UNSUCCESSFUL"
            /\ UNCHANGED <<iplist, path, ret_ok, return_ss>>

\* faulty variant: the "NULL" check is missing
OrderBranchNoNullCheck(f, pref, order) == SetOrder(f, pref, order)

\* faulty variant: "NULL" ends the call with the initial status
OrderBranchNullUnsuccessful(f, pref, order) ==
    IF order # NULL_ORDER /\ order # <<>> /\ order[1] = "NULL"
    THEN /\ Return(f, pref, "NT_STATUS_UNSUCCESSFUL", <<>>, "null")
         /\ UNCHANGED <<resolve_order, i>>
    ELSE SetOrder(f, pref, order)

\* after a cache miss: the order is set up and the loop is entered
OrderBranch(f, pref, order) ==
    IF order # NULL_ORDER /\ order # <<>> /\ order[1] = "NULL"
    THEN /\ Return(f, pref, "NT_STATUS_INVALID_PARAMETER", <<>>, "null")
         /\ UNCHANGED <<resolve_order, i>>
    ELSE SetOrder(f, pref, order)

\* internal_resolve_name from its entry to the first backend
internal_resolve_name(f, pref, order) ==
    /\ fn' = f
    /\ prefer_ipv4' = pref
    /\ orig_order' = order
    /\ dispatched' = <<>>
    /\ icount' = 0
    /\ cur_type' = name_type
    /\ UNCHANGED <<name, name_type, namecache, stored_result, dd_in, dd_out>>
    /\ IF is_ipaddress(name)
       THEN LiteralBranch(f, pref)
       ELSE /\ cache_consulted' = TRUE
            /\ live_at_entry' = namecache_fetch_ok(namecache, name, name_type, now)
            /\ IF namecache_fetch_ok(namecache, name, name_type, now)
               THEN CacheBranch(f, pref)
               ELSE IF order = <<>>
                    \* strcmp(resolve_order[0], "NULL") reads a NULL pointer:
                    \* the call crashes, or the comparison yields either answer
                    THEN \/ /\ pc' = "crashed"
                            /\ UNCHANGED <<resolve_order, i, status, iplist, path,
                                           ret_ok, return_ss>>
                         \/ /\ Return(f, pref, "NT_STATUS_INVALID_PARAMETER", <<>>, "null")
                            /\ UNCHANGED <<resolve_order, i>>
                         \/ OrderBranch(f, pref, order)
                    ELSE OrderBranch(f, pref, order)

\* faulty variant: the index is advanced twice
ContinueSkipsOne(st) ==
    IF i + 1 >= Len(resolve_order)
    THEN /\ Return(fn, prefer_ipv4, st, <<>>, "exhausted")
         /\ i' = Len(resolve_order) + 1
    ELSE /\ pc' = "loop"
         /\ i' = i + 2
         /\ status' = st
         /\ UNCHANGED <<iplist, path, ret_ok, return_ss>>

\* the loop goes on to the next tag, or ends with the last status
Continue(st) ==
    IF i = Len(resolve_order)
    THEN /\ Return(fn, prefer_ipv4, st, <<>>, "exhausted")
         /\ i' = i + 1
    ELSE /\ pc' = "loop"
         /\ i' = i + 1
         /\ status' = st
         /\ UNCHANGED <<iplist, path, ret_ok, return_ss>>

\* faulty variant: the kdc backend leaves name_type as it is
Done_keeps_name_type(b, ss_list) ==
    LET type == cur_type
        l == remove_duplicate_addrs2(convert_ss2service(ss_list))
        nc == namecache_store(namecache, name, type,
                              ip_service_to_samba_sockaddr(l), now)
    IN  /\ cur_type' = type
        /\ icount' = Len(ss_list)
        /\ i' = i
        /\ IF ~convert_ss2service_ok(ss_list)
           THEN /\ Return(fn, prefer_ipv4, "NT_STATUS_NO_MEMORY", <<>>, "convert")
                /\ UNCHANGED <<namecache, stored_result>>
           ELSE /\ Return(fn, prefer_ipv4, "NT_STATUS_OK", l, "backend")
                /\ IF Len(l) > 0
                   THEN /\ namecache' = nc
                        /\ stored_result' = IF nc # namecache THEN l ELSE stored_result
                   ELSE UNCHANGED <<namecache, stored_result>>

\* the code after the label done: conversion, duplicate removal, name cache
Done(b, ss_list) ==
    LET type == IF b = "kdc" THEN KDC_NAME_TYPE ELSE cur_type
        l == remove_duplicate_addrs2(convert_ss2service(ss_list))
        nc == namecache_store(namecache, name, type,
                              ip_service_to_samba_sockaddr(l), now)
    IN  /\ cur_type' = type
        /\ icount' = Len(ss_list)
        /\ i' = i
        /\ IF ~convert_ss2service_ok(ss_list)
           THEN /\ Return(fn, prefer_ipv4, "NT_STATUS_NO_MEMORY", <<>>, "convert")
                /\ UNCHANGED <<namecache, stored_result>>
           ELSE /\ Return(fn, prefer_ipv4, "NT_STATUS_OK", l, "backend")
                /\ IF Len(l) > 0
                   THEN /\ namecache' = nc
                        /\ stored_result' = IF nc # namecache THEN l ELSE stored_result
                   ELSE UNCHANGED <<namecache, stored_result>>

\* one turn of the loop for a tag that calls a backend
DispatchBackend ==
    /\ pc = "loop"
    /\ Dispatches(resolve_order[i], cur_type)
    /\ LET b == BackendOf(resolve_order[i])
       IN  /\ dispatched' = Append(dispatched, b)
           /\ \E o \in BackendOutcomes(b, cur_type) :
                IF o.status = "NT_STATUS_OK"
                THEN Done(b, o.ss_list)
                ELSE /\ Continue(o.status)
                     /\ UNCHANGED <<cur_type, icount, namecache, stored_result>>
    /\ UNCHANGED <<now, name, name_type, fn, resolve_order, cache_consulted,
                   orig_order, live_at_entry, prefer_ipv4, dd_in, dd_out>>
    /\ UNCHANGED safVars
    /\ UNCHANGED nbtVars

\* one turn of the loop for "wins" with type 0x1d or for an unknown tag
SkipTag ==
    /\ pc = "loop"
    /\ ~Dispatches(resolve_order[i], cur_type)
    /\ Continue(status)
    /\ UNCHANGED <<now, name, name_type, fn, resolve_order, cur_type, icount,
                   dispatched, cache_consulted, orig_order, live_at_entry,
                   stored_result, prefer_ipv4, namecache, dd_in, dd_out>>
    /\ UNCHANGED safVars
    /\ UNCHANGED nbtVars

\* a caller calls internal_resolve_name with some resolve order
CallInternalResolveName ==
    /\ pc = "idle"
    /\ \E order \in Orders : internal_resolve_name("internal_resolve_name", FALSE, order)
    /\ UNCHANGED now
    /\ UNCHANGED safVars
    /\ UNCHANGED nbtVars

\* resolve_name: a literal is interpreted at once, every other name goes to
\* internal_resolve_name with lp_name_resolve_order()
CallResolveName ==
    /\ pc = "idle"
    /\ \E pref \in BOOLEAN :
         IF is_ipaddress(name)
         THEN /\ fn' = "resolve_name"
              /\ prefer_ipv4' = pref
              /\ pc' = "done"
              /\ path' = "resolve_name_literal"
              /\ ret_ok' = TRUE
              /\ return_ss' = interpret_string_addr(name)
              /\ UNCHANGED <<name, name_type, resolve_order, i, cur_type, status,
                             iplist, icount, dispatched, cache_consulted,
                             orig_order, live_at_entry, stored_result, namecache,
                             dd_in, dd_out>>
         ELSE \E order \in Orders : internal_resolve_name("resolve_name", pref, order)
    /\ UNCHANGED now
    /\ UNCHANGED safVars
    /\ UNCHANGED nbtVars

\* the lists remove_duplicate_addrs2 is given by its other callers
ServiceLists ==
    SeqsUpTo({Service(a, p) : a \in {Zero4, Host4, Host6}, p \in {PORT_NONE, 389}},
             MaxList)

\* remove_duplicate_addrs2 called on a list of its own
CallRemoveDuplicateAddrs2 ==
    /\ pc = "idle"
    /\ \E l \in ServiceLists :
         /\ dd_in' = l
         /\ dd_out' = remove_duplicate_addrs2(l)
    /\ pc' = "done"
    /\ fn' = "remove_duplicate_addrs2"
    /\ UNCHANGED <<now, name, name_type, resolve_order, i, cur_type, status, iplist,
                   icount, path, dispatched, cache_consulted, orig_order,
                   live_at_entry, stored_result, prefer_ipv4, ret_ok, return_ss,
                   namecache>>
    /\ UNCHANGED safVars
    /\ UNCHANGED nbtVars

\* the caller has taken the result; the next call can start
ReturnToCaller ==
    /\ pc = "done"
    /\ pc' = "idle"
    /\ fn' = "none"
    /\ resolve_order' = <<>>
    /\ i' = 1
    /\ cur_type' = name_type
    /\ status' = "none"
    /\ iplist' = <<>>
    /\ icount' = 0
    /\ path' = "none"
    /\ dispatched' = <<>>
    /\ cache_consulted' = FALSE
    /\ orig_order' = <<>>
    /\ live_at_entry' = FALSE
    /\ prefer_ipv4' = FALSE
    /\ ret_ok' = FALSE
    /\ return_ss' = NoAddr
    /\ dd_in' = <<>>
    /\ dd_out' = <<>>
    /\ UNCHANGED <<now, name, name_type, stored_result, namecache>>
    /\ UNCHANGED safVars
    /\ UNCHANGED nbtVars

(***************************************************************************)
(* Server affinity cache (saf_store, saf_join_store, saf_delete,           *)
(* saf_fetch) over gencache                                                *)
(***************************************************************************)
Domains == {None, "", "dom", "DOM"}
Servers == {None, "", "dc1", "dc2"}

\* strupper_m on the domain part of the key
ToUpper(d) ==
    CASE d = "dom" -> "DOM"
      [] OTHER -> d

\* talloc_asprintf_strupper_m(mem_ctx, SAFKEY_FMT, domain)
saf_key(domain) == <<"SAF/DOMAIN", ToUpper(domain)>>

\* talloc_asprintf_strupper_m(mem_ctx, SAFJOINKEY_FMT, domain)
saf_join_key(domain) == <<"SAFJOIN/DOMAIN", ToUpper(domain)>>

\* every key string the domains can give, before and after strupper
GenKeys ==
    {<<k, d>> : k \in {"SAF/DOMAIN", "SAFJOIN/DOMAIN"},
                d \in (Domains \ {None}) \cup {ToUpper(x) : x \in Domains \ {None}}}

NoValue == [value |-> None, expire |-> 0]

gencache_set(gc, key, value, expire) ==
    [gc EXCEPT ![key] = [value |-> value, expire |-> expire]]

gencache_del(gc, key) == [gc EXCEPT ![key] = NoValue]

\* gencache_get and gencache_del report whether an unexpired entry was there
gencache_get_ok(gc, key, t) == gc[key].expire > t

SafRet(ok, server) == [ok |-> ok, server |-> server]
SafOp(op, domain, server, t) == [op |-> op, domain |-> domain, server |-> server, at |-> t]

saf_store(domain, servername) ==
    /\ saf_op' = SafOp("saf_store", domain, servername, now)
    /\ IF domain = None \/ servername = None \/ domain = "" \/ servername = ""
       THEN /\ saf_ret' = SafRet(FALSE, None)
            /\ UNCHANGED <<gencache, saf_last, saf_deleted>>
       ELSE /\ gencache' = gencache_set(gencache, saf_key(domain), servername,
                                        now + SAF_TTL)
            /\ saf_ret' = SafRet(TRUE, None)
            /\ saf_last' = [saf_last EXCEPT ![ToUpper(domain)] =
                               [value |-> servername, expire |-> now + SAF_TTL]]
            /\ saf_deleted' = [saf_deleted EXCEPT ![ToUpper(domain)] = "no"]

saf_join_store(domain, servername) ==
    /\ saf_op' = SafOp("saf_join_store", domain, servername, now)
    /\ IF domain = None \/ servername = None \/ domain = "" \/ servername = ""
       THEN /\ saf_ret' = SafRet(FALSE, None)
            /\ UNCHANGED <<gencache, saf_last, saf_deleted>>
       ELSE /\ gencache' = gencache_set(gencache, saf_join_key(domain), servername,
                                        now + SAFJOIN_TTL)
            /\ saf_ret' = SafRet(TRUE, None)
            /\ saf_deleted' = [saf_deleted EXCEPT ![ToUpper(domain)] = "no"]
            /\ UNCHANGED saf_last

\* which of the two entries of the domain are unexpired
Found(domain) ==
    CASE gencache_get_ok(gencache, saf_key(domain), now)
         /\ gencache_get_ok(gencache, saf_join_key(domain), now) -> "both"
      [] gencache_get_ok(gencache, saf_key(domain), now)
         /\ ~gencache_get_ok(gencache, saf_join_key(domain), now) -> "saf"
      [] ~gencache_get_ok(gencache, saf_key(domain), now)
         /\ gencache_get_ok(gencache, saf_join_key(domain), now) -> "join"
      [] OTHER -> "none"

\* faulty variant: only the SAF key is deleted
saf_delete_saf_only(domain) ==
    /\ saf_op' = SafOp("saf_delete", domain, None, now)
    /\ IF domain = None
       THEN /\ saf_ret' = SafRet(FALSE, None)
            /\ UNCHANGED <<gencache, saf_last, saf_deleted>>
       ELSE /\ gencache' = gencache_del(gencache, saf_key(domain))
            /\ saf_ret' = SafRet(gencache_get_ok(gencache, saf_key(domain), now), None)
            /\ saf_last' = [saf_last EXCEPT ![ToUpper(domain)] = NoValue]
            /\ saf_deleted' = [saf_deleted EXCEPT ![ToUpper(domain)] = Found(domain)]

\* both keys are deleted; the value returned is that of the second gencache_del
saf_delete(domain) ==
    /\ saf_op' = SafOp("saf_delete", domain, None, now)
    /\ IF domain = None
       THEN /\ saf_ret' = SafRet(FALSE, None)
            /\ UNCHANGED <<gencache, saf_last, saf_deleted>>
       ELSE /\ gencache' = gencache_del(gencache_del(gencache, saf_join_key(domain)),
                                        saf_key(domain))
            /\ saf_ret' = SafRet(gencache_get_ok(gencache, saf_key(domain), now), None)
            /\ saf_last' = [saf_last EXCEPT ![ToUpper(domain)] = NoValue]
            /\ saf_deleted' = [saf_deleted EXCEPT ![ToUpper(domain)] = Found(domain)]

\* faulty variant: the SAF key is looked up before the SAFJOIN key
saf_fetch_saf_first(domain) ==
    /\ saf_op' = SafOp("saf_fetch", domain, None, now)
    /\ UNCHANGED <<gencache, saf_last, saf_deleted>>
    /\ IF domain = None \/ domain = ""
       THEN saf_ret' = SafRet(FALSE, None)
       ELSE IF gencache_get_ok(gencache, saf_key(domain), now)
       THEN saf_ret' = SafRet(TRUE, gencache[saf_key(domain)].value)
       ELSE IF gencache_get_ok(gencache, saf_join_key(domain), now)
       THEN saf_ret' = SafRet(TRUE, gencache[saf_join_key(domain)].value)
       ELSE saf_ret' = SafRet(FALSE, None)

\* faulty variant: the SAFJOIN key is not looked up
saf_fetch_no_join(domain) ==
    /\ saf_op' = SafOp("saf_fetch", domain, None, now)
    /\ UNCHANGED <<gencache, saf_last, saf_deleted>>
    /\ IF domain = None \/ domain = ""
       THEN saf_ret' = SafRet(FALSE, None)
       ELSE IF gencache_get_ok(gencache, saf_key(domain), now)
       THEN saf_ret' = SafRet(TRUE, gencache[saf_key(domain)].value)
       ELSE saf_ret' = SafRet(FALSE, None)

\* the SAFJOIN value if there is one, else the SAF value, else NULL
saf_fetch(domain) ==
    /\ saf_op' = SafOp("saf_fetch", domain, None, now)
    /\ UNCHANGED <<gencache, saf_last, saf_deleted>>
    /\ IF domain = None \/ domain = ""
       THEN saf_ret' = SafRet(FALSE, None)
       ELSE IF gencache_get_ok(gencache, saf_join_key(domain), now)
       THEN saf_ret' = SafRet(TRUE, gencache[saf_join_key(domain)].value)
       ELSE IF gencache_get_ok(gencache, saf_key(domain), now)
       THEN saf_ret' = SafRet(TRUE, gencache[saf_key(domain)].value)
       ELSE saf_ret' = SafRet(FALSE, None)

CallSafStore ==
    /\ \E d \in Domains, s \in Servers : saf_store(d, s)
    /\ UNCHANGED now
    /\ UNCHANGED resolveVars
    /\ UNCHANGED nbtVars

CallSafJoinStore ==
    /\ \E d \in Domains, s \in Servers : saf_join_store(d, s)
    /\ UNCHANGED now
    /\ UNCHANGED resolveVars
    /\ UNCHANGED nbtVars

CallSafDelete ==
    /\ \E d \in Domains : saf_delete(d)
    /\ UNCHANGED now
    /\ UNCHANGED resolveVars
    /\ UNCHANGED nbtVars

CallSafFetch ==
    /\ \E d \in Domains : saf_fetch(d)
    /\ UNCHANGED now
    /\ UNCHANGED resolveVars
    /\ UNCHANGED nbtVars

(***************************************************************************)
(* name_query: one NetBIOS name query, unicast or broadcast                *)
(***************************************************************************)
MaxResponses == 3     \* how many packets reach the validator of one query

Far4 == V4("10.9.0.1")

\* the octets of the model's addresses, four for IPv4 and sixteen for IPv6
Octets(ss) ==
    CASE ss.addr = "0.0.0.0" -> <<0, 0, 0, 0>>
      [] ss.addr = "10.0.0.5" -> <<10, 0, 0, 5>>
      [] ss.addr = "10.9.0.1" -> <<10, 9, 0, 1>>
      [] ss.addr = "10.0.0.1" -> <<10, 0, 0, 1>>
      [] ss.addr = "10.0.0.255" -> <<10, 0, 0, 255>>
      [] ss.addr = "10.9.0.2" -> <<10, 9, 0, 2>>
      [] ss.addr = "10.9.255.255" -> <<10, 9, 255, 255>>
      [] ss.addr = "255.255.255.255" -> <<255, 255, 255, 255>>
      [] ss.addr = "::" -> <<0, 0, 0, 0, 0, 0, 0, 0, 0, 0, 0, 0, 0, 0, 0, 0>>
      [] ss.addr = "fd00::5" -> <<253, 0, 0, 0, 0, 0, 0, 0, 0, 0, 0, 0, 0, 0, 0, 5>>
      [] ss.addr = "fd00::1" -> <<253, 0, 0, 0, 0, 0, 0, 0, 0, 0, 0, 0, 0, 0, 0, 1>>
      [] ss.addr = "fd00::ffff" -> <<253, 0, 0, 0, 0, 0, 0, 0, 0, 0, 0, 0, 0, 0, 255, 255>>
      [] ss.addr = "fd99::1" -> <<253, 153, 0, 0, 0, 0, 0, 0, 0, 0, 0, 0, 0, 0, 0, 1>>

\* a local interface: its address, its broadcast address, its netmask length
Interface(ip, bcast, masklen) == [ip |-> ip, bcast |-> bcast, masklen |-> masklen]

If0 == Interface(V4("10.0.0.1"), V4("10.0.0.255"), 24)
If1 == Interface(V4("10.9.0.2"), V4("10.9.255.255"), 16)

\* what load_interfaces can have found
InterfaceSets == {<<>>, <<If0>>, <<If0, If1>>}

\* the leading bits that the octets a and b share, k of them counted so far
RECURSIVE EqualLeadingBits(_, _, _)
EqualLeadingBits(a, b, k) ==
    IF k = 8 \/ (a \div 2^(7 - k)) % 2 # (b \div 2^(7 - k)) % 2
    THEN k
    ELSE EqualLeadingBits(a, b, k + 1)

RECURSIVE MatchingFrom(_, _, _)
MatchingFrom(p1, p2, k) ==
    IF k > Len(p1) THEN 0
    ELSE IF p1[k] = p2[k] THEN 8 + MatchingFrom(p1, p2, k + 1)
    ELSE EqualLeadingBits(p1[k], p2[k], 0)

\* matching_len_bits: the length of the common bit prefix
matching_len_bits(p1, p2) == MatchingFrom(p1, p2, 1)

\* iface_local: the address lies in the subnet of one of the interfaces
iface_local(ss, ifs) ==
    \E k \in 1..Len(ifs) :
        /\ ifs[k].ip.family = ss.family
        /\ matching_len_bits(Octets(ss), Octets(ifs[k].ip)) >= ifs[k].masklen

\* the loop of addr_compare: the longest prefix shared with a broadcast address
RECURSIVE MaxBits(_, _, _)
MaxBits(ss, ifs, k) ==
    IF k > Len(ifs) THEN 0
    ELSE LET rest == MaxBits(ss, ifs, k + 1)
             bits == matching_len_bits(Octets(ss), Octets(ifs[k].bcast))
         IN  IF ifs[k].bcast.family # ss.family THEN rest
             ELSE IF bits > rest THEN bits ELSE rest

\* the nearness addr_compare gives an address, with the bias for local ones
Nearness(ss, ifs) ==
    MaxBits(ss, ifs, 1)
    + (IF iface_local(ss, ifs) THEN (IF ss.family = "AF_INET" THEN 32 ELSE 128) ELSE 0)

\* faulty variant: the comparison is the wrong way round
addr_compare_reversed(ss1, ss2, ifs) ==
    IF ss1.family # ss2.family
    THEN (IF ss2.family = "AF_INET" THEN -1 ELSE 1)
    ELSE Nearness(ss1, ifs) - Nearness(ss2, ifs)

addr_compare(ss1, ss2, ifs) ==
    IF ss1.family # ss2.family
    THEN (IF ss2.family = "AF_INET" THEN 1 ELSE -1)
    ELSE Nearness(ss2, ifs) - Nearness(ss1, ifs)

\* the orders of the list l
Orderings(l) ==
    {[k \in 1..Len(l) |-> l[f[k]]] : f \in Permutations(1..Len(l))}

\* sort_addr_list: qsort with addr_compare; the order of two addresses that
\* compare equal is not determined
sort_addr_list(l, ifs) ==
    IF Len(l) <= 1 THEN {l}
    ELSE {p \in Orderings(l) :
            \A j, k \in 1..Len(p) : j < k => addr_compare(p[j], p[k], ifs) <= 0}

\* the names asked for: "*" and a NetBIOS name
Star == <<"*">>
NbtNames == {Star, Name15}

\* one 6-byte record of the answer: the group bit of its flags and the address
Entry(group, ip) == [group |-> group, ip |-> ip]

NbtAddrs == {Zero4, Host4, Far4}
Entries == {Entry(g, a) : g \in BOOLEAN, a \in NbtAddrs}
EntryLists == {<<>>} \cup {<<e>> : e \in Entries} \cup {<<e, f>> : e, f \in Entries}

\* an incoming packet: the header fields the validator reads and the records
\* of the first answer (rdlength / 6 of them)
Packet(opcode, bflag, rcode, ancount, rdata) ==
    [opcode |-> opcode, bflag |-> bflag, rcode |-> rcode, ancount |-> ancount,
     rdata |-> rdata]

\* the positive responses with every answer, and every other header with no
\* answer or with one unique address
Packets ==
    {Packet(0, FALSE, 0, 1, r) : r \in EntryLists}
    \cup {Packet(op, b, rc, 1, r) : op \in {0, 5}, b \in BOOLEAN, rc \in {0, 3},
                                     r \in {<<>>, <<Entry(FALSE, Host4)>>}}
    \cup {Packet(op, b, rc, 0, <<>>) : op \in {0, 5}, b \in BOOLEAN, rc \in {0, 3}}

\* the header passes the check the address parsing is behind
PositiveResponse(p) == p.opcode = 0 /\ ~p.bflag /\ p.rcode = 0 /\ p.ancount # 0

HasUnique(p) == \E k \in 1..Len(p.rdata) : ~p.rdata[k].group

Ips(rdata) == [k \in 1..Len(rdata) |-> rdata[k].ip]

\* the flags of the responses in the model: response and authoritative set
HeaderFlags(p) ==
    {"NM_FLAGS_RS", "NM_FLAGS_AA"} \cup (IF p.bflag THEN {"NM_FLAGS_B"} ELSE {})

\* faulty variant: an address already collected is appended again
RECURSIVE CollectAddrsAgain(_, _, _)
CollectAddrsAgain(addrs, rdata, k) ==
    IF k > Len(rdata) THEN addrs
    ELSE IF is_zero_addr(rdata[k].ip) THEN CollectAddrsAgain(addrs, rdata, k + 1)
    ELSE CollectAddrsAgain(Append(addrs, rdata[k].ip), rdata, k + 1)

\* the loop of name_query_validator over the records: zero addresses and
\* addresses already in state->addrs are skipped, the others appended
RECURSIVE CollectAddrs(_, _, _)
CollectAddrs(addrs, rdata, k) ==
    IF k > Len(rdata) THEN addrs
    ELSE IF is_zero_addr(rdata[k].ip) THEN CollectAddrs(addrs, rdata, k + 1)
    ELSE IF \E j \in 1..Len(addrs) : sockaddr_equal(rdata[k].ip, addrs[j])
         THEN CollectAddrs(addrs, rdata, k + 1)
         ELSE CollectAddrs(Append(addrs, rdata[k].ip), rdata, k + 1)

Verdict(st, ok) == [st |-> st, ok |-> ok]

\* faulty variant: a unique name ends the "*" query too
name_query_validator_star_early(st, p) ==
    IF p.opcode = 0 /\ ~st.bcast /\ p.rcode # 0
    THEN Verdict([st EXCEPT !.validate_error = "NT_STATUS_NOT_FOUND"], TRUE)
    ELSE IF p.opcode # 0 \/ p.bflag \/ p.rcode # 0 \/ p.ancount = 0
    THEN Verdict(st, FALSE)
    ELSE Verdict([st EXCEPT !.addrs = CollectAddrs(st.addrs, p.rdata, 1),
                            !.flags = @ \cup HeaderFlags(p)],
                 IF st.bcast THEN HasUnique(p) ELSE TRUE)

\* faulty variant: a broadcast query waits for its deadline whatever arrives
name_query_validator_never_early(st, p) ==
    IF p.opcode = 0 /\ ~st.bcast /\ p.rcode # 0
    THEN Verdict([st EXCEPT !.validate_error = "NT_STATUS_NOT_FOUND"], TRUE)
    ELSE IF p.opcode # 0 \/ p.bflag \/ p.rcode # 0 \/ p.ancount = 0
    THEN Verdict(st, FALSE)
    ELSE Verdict([st EXCEPT !.addrs = CollectAddrs(st.addrs, p.rdata, 1),
                            !.flags = @ \cup HeaderFlags(p)],
                 ~st.bcast)

\* faulty variant: the negative response of a WINS server is discarded
name_query_validator_drop_negative(st, p) ==
    IF p.opcode # 0 \/ p.bflag \/ p.rcode # 0 \/ p.ancount = 0
    THEN Verdict(st, FALSE)
    ELSE Verdict([st EXCEPT !.addrs = CollectAddrs(st.addrs, p.rdata, 1),
                            !.flags = @ \cup HeaderFlags(p)],
                 IF st.bcast THEN HasUnique(p) /\ ~st.bcast_star_query ELSE TRUE)

\* name_query_validator: the new state of the query and whether the packet
\* completes the transaction
name_query_validator(st, p) ==
    IF p.opcode = 0 /\ ~st.bcast /\ p.rcode # 0
    THEN Verdict([st EXCEPT !.validate_error = "NT_STATUS_NOT_FOUND"], TRUE)
    ELSE IF p.opcode # 0 \/ p.bflag \/ p.rcode # 0 \/ p.ancount = 0
    THEN Verdict(st, FALSE)
    ELSE Verdict([st EXCEPT !.addrs = CollectAddrs(st.addrs, p.rdata, 1),
                            !.flags = @ \cup HeaderFlags(p)],
                 IF st.bcast THEN HasUnique(p) /\ ~st.bcast_star_query ELSE TRUE)

\* name_query_done: the status the request is completed with
name_query_done(st) ==
    IF st.validate_error # "NT_STATUS_OK" THEN st.validate_error ELSE "NT_STATUS_OK"

\* what name_query_recv returns
Received(st, addrs, flags) == [status |-> st, addrs |-> addrs, flags |-> flags]

\* faulty variant: the timeout of a broadcast query is passed on
name_query_recv_timeout_error(st) ==
    IF st.req # "NT_STATUS_OK" THEN {Received(st.req, <<>>, {})}
    ELSE IF Len(st.addrs) = 0 THEN {Received("NT_STATUS_NOT_FOUND", <<>>, {})}
    ELSE {Received("NT_STATUS_OK", l, st.flags) : l \in sort_addr_list(st.addrs, st.ifaces)}

\* faulty variant: a query that collected no address succeeds with none
name_query_recv_empty_ok(st) ==
    LET nt == IF st.bcast /\ st.req = "NT_STATUS_IO_TIMEOUT"
              THEN "NT_STATUS_OK" ELSE st.req
    IN  IF nt # "NT_STATUS_OK" THEN {Received(nt, <<>>, {})}
        ELSE {Received("NT_STATUS_OK", l, st.flags) :
                 l \in sort_addr_list(st.addrs, st.ifaces)}

\* name_query_recv: the timeout of a broadcast query is no error, no address
\* is NT_STATUS_NOT_FOUND, the addresses are sorted
name_query_recv(st) ==
    LET nt == IF st.bcast /\ st.req = "NT_STATUS_IO_TIMEOUT"
              THEN "NT_STATUS_OK" ELSE st.req
    IN  IF nt # "NT_STATUS_OK" THEN {Received(nt, <<>>, {})}
        ELSE IF Len(st.addrs) = 0 THEN {Received("NT_STATUS_NOT_FOUND", <<>>, {})}
        ELSE {Received("NT_STATUS_OK", l, st.flags) :
                 l \in sort_addr_list(st.addrs, st.ifaces)}

\* no packet has arrived yet
NoPacket == Packet(-1, FALSE, 0, 0, <<>>)

\* no request
NqIdle ==
    [pc |-> "idle", name |-> <<>>, bcast |-> FALSE, bcast_star_query |-> FALSE,
     ifaces |-> <<>>, addrs |-> <<>>, validate_error |-> "NT_STATUS_OK", flags |-> {},
     req |-> "none", ret |-> Received("none", <<>>, {}),
     arrived |-> <<>>, nresp |-> 0, last |-> NoPacket, last_unique |-> FALSE,
     last_ok |-> FALSE, by |-> "none"]

\* name_query_send with its deadline set by the caller
NameQuerySend ==
    /\ nq.pc = "idle"
    /\ \E n \in NbtNames, bcast \in BOOLEAN, family \in {"AF_INET", "AF_INET6"},
          disable_netbios \in BOOLEAN, ifs \in InterfaceSets :
         LET st == [NqIdle EXCEPT !.name = n, !.bcast = bcast, !.ifaces = ifs]
         IN  IF family # "AF_INET"
             THEN nq' = [st EXCEPT !.pc = "completed", !.by = "send",
                                   !.req = "NT_STATUS_INVALID_ADDRESS"]
             ELSE IF disable_netbios
             THEN nq' = [st EXCEPT !.pc = "completed", !.by = "send",
                                   !.req = "NT_STATUS_NOT_SUPPORTED"]
             ELSE nq' = [st EXCEPT !.pc = "pending", !.req = "IN_PROGRESS",
                                   !.bcast_star_query = bcast /\ n = Star]
    /\ UNCHANGED <<now, resolveVars, safVars, nqs, wl, rw, ads, srt, spr, tr, wq, gd>>

\* a packet with the transaction id of the query reaches name_query_validator;
\* an accepted packet completes nb_trans and name_query_done runs
NameQueryResponse ==
    /\ nq.pc = "pending"
    /\ nq.nresp < MaxResponses
    /\ \E p \in Packets :
         LET v == name_query_validator(nq, p)
             h == [v.st EXCEPT !.nresp = @ + 1,
                               !.last = [p EXCEPT !.rdata = <<>>],
                               !.last_unique = HasUnique(p),
                               !.last_ok = v.ok,
                               !.arrived = IF PositiveResponse(p)
                                           THEN @ \o Ips(p.rdata) ELSE @]
         IN  IF v.ok
             THEN nq' = [h EXCEPT !.pc = "completed", !.by = "response",
                                  !.req = name_query_done(v.st)]
             ELSE nq' = h
    /\ UNCHANGED <<now, resolveVars, safVars, nqs, wl, rw, ads, srt, spr, tr, wq, gd>>

\* the deadline of the request fires
NameQueryTimeout ==
    /\ nq.pc = "pending"
    /\ nq' = [nq EXCEPT !.pc = "completed", !.by = "timeout",
                        !.req = "NT_STATUS_IO_TIMEOUT"]
    /\ UNCHANGED <<now, resolveVars, safVars, nqs, wl, rw, ads, srt, spr, tr, wq, gd>>

\* the caller collects the result
NameQueryRecv ==
    /\ nq.pc = "completed"
    /\ \E r \in name_query_recv(nq) : nq' = [nq EXCEPT !.pc = "received", !.ret = r]
    /\ UNCHANGED <<now, resolveVars, safVars, nqs, wl, rw, ads, srt, spr, tr, wq, gd>>

(***************************************************************************)
(* name_queries: name queries to several destinations, one more at each    *)
(* wakeup; its caller name_resolve_bcast_done collects the result and      *)
(* frees the request                                                       *)
(***************************************************************************)
MaxAddrs == 3         \* how many destinations one name_queries request has

\* what name_query_recv can return for a query of the given kind
QueryStatuses(bcast) ==
    {"NT_STATUS_OK", "NT_STATUS_NOT_FOUND", "NT_STATUS_NOT_SUPPORTED"}
        \cup (IF bcast THEN {} ELSE {"NT_STATUS_IO_TIMEOUT"})

\* no request
NqsIdle ==
    [pc |-> "idle", bcast |-> FALSE, num_addrs |-> 0, num_sent |-> 0,
     num_received |-> 0, subreqs |-> <<>>, wakeup |-> FALSE, waits |-> 0,
     received_index |-> -1, req |-> "none",
     started |-> <<>>, delivered |-> <<>>, cancelled |-> {}]

\* name_query_send to addrs[num_sent] with its deadline and callback set;
\* subreqs[k + 1] is the sub-request of destination k
StartSubQuery(st) ==
    [st EXCEPT !.subreqs = Append(@, "pending"),
               !.num_sent = @ + 1,
               !.started = Append(@, [idx |-> st.num_sent, waits |-> st.waits,
                                      after |-> st.req # "IN_PROGRESS"])]

\* the wakeup of wait_msec is armed while destinations are left
ArmWakeup(st) == [st EXCEPT !.wakeup = st.num_sent < st.num_addrs]

\* the indices of the sub-requests still pending
PendingSubreqs(st) == {k \in 0..(Len(st.subreqs) - 1) : st.subreqs[k + 1] = "pending"}

\* faulty variant: the finished request is left alive
name_resolve_bcast_done_no_free(st) == [st EXCEPT !.pc = "finished"]

\* name_resolve_bcast_done: name_queries_recv, then TALLOC_FREE of the
\* request, which frees the pending sub-requests and the wakeup with it
name_resolve_bcast_done(st) ==
    [st EXCEPT !.pc = "finished",
               !.cancelled = PendingSubreqs(st),
               !.subreqs = [k \in 1..Len(st.subreqs) |->
                               IF st.subreqs[k] = "pending" THEN "freed" ELSE st.subreqs[k]],
               !.wakeup = FALSE]

\* faulty variant: the first failed sub-query fails the request
name_queries_done_fail_fast(st, k, nt) ==
    LET s1 == [st EXCEPT !.subreqs[k + 1] = "done",
                         !.num_received = @ + 1,
                         !.delivered = Append(@, [idx |-> k, status |-> nt,
                                                  after |-> st.req # "IN_PROGRESS"])]
    IN  IF nt # "NT_STATUS_OK"
        THEN name_resolve_bcast_done([s1 EXCEPT !.req = nt])
        ELSE name_resolve_bcast_done([s1 EXCEPT !.received_index = k,
                                                !.req = "NT_STATUS_OK"])

\* name_queries_done for sub-request k that name_query_recv returns nt for;
\* completing the request runs the caller's callback
name_queries_done(st, k, nt) ==
    LET s1 == [st EXCEPT !.subreqs[k + 1] = "done",
                         !.num_received = @ + 1,
                         !.delivered = Append(@, [idx |-> k, status |-> nt,
                                                  after |-> st.req # "IN_PROGRESS"])]
    IN  IF nt # "NT_STATUS_OK"
        THEN IF s1.num_received >= s1.num_addrs
             THEN name_resolve_bcast_done([s1 EXCEPT !.req = nt])
             ELSE s1
        ELSE name_resolve_bcast_done([s1 EXCEPT !.received_index = k,
                                                !.req = "NT_STATUS_OK"])

\* with no destination name_queries_send still reads addrs[0] and writes
\* subreqs[0], both outside their empty arrays: the process either goes on
\* with the sub-query it started or is killed
ZeroDestinations(st) ==
    IF st.num_addrs = 0 THEN {st, [st EXCEPT !.pc = "crashed"]} ELSE {st}

\* name_queries_send: the first sub-query is started at once, whatever
\* num_addrs is
NameQueriesSend ==
    /\ nqs.pc = "idle"
    /\ \E n \in 0..MaxAddrs, bcast \in BOOLEAN :
         LET s1 == ArmWakeup(StartSubQuery([NqsIdle EXCEPT !.pc = "running",
                                                           !.bcast = bcast,
                                                           !.num_addrs = n,
                                                           !.req = "IN_PROGRESS"]))
         IN  nqs' \in ZeroDestinations(s1)
    /\ UNCHANGED <<now, resolveVars, safVars, nq, wl, rw, ads, srt, spr, tr, wq, gd>>

\* name_queries_next: the wakeup fires and the next sub-query is started
NameQueriesNext ==
    /\ nqs.pc = "running"
    /\ nqs.wakeup
    /\ nqs' = ArmWakeup(StartSubQuery([nqs EXCEPT !.waits = @ + 1]))
    /\ UNCHANGED <<now, resolveVars, safVars, nq, wl, rw, ads, srt, spr, tr, wq, gd>>

\* a pending sub-query completes and name_queries_done runs
NameQueriesDone ==
    /\ nqs.pc = "running"
    /\ \E k \in PendingSubreqs(nqs), nt \in QueryStatuses(nqs.bcast) :
         nqs' = name_queries_done(nqs, k, nt)
    /\ UNCHANGED <<now, resolveVars, safVars, nq, wl, rw, ads, srt, spr, tr, wq, gd>>

(***************************************************************************)
(* query_wins_list: the WINS servers of one tag queried one after another  *)
(***************************************************************************)
MaxServers == 3       \* how many WINS servers one tag has

\* the addresses of the configured WINS servers
WinsServers == {V4("10.0.0.7"), V4("10.0.0.8"), V4("10.9.0.9")}

\* the server lists of a tag
RECURSIVE ServerLists(_)
ServerLists(n) ==
    IF n = 0 THEN {<<>>}
    ELSE LET shorter == ServerLists(n - 1)
         IN  shorter \cup {Append(l, w) : l \in {s \in shorter : Len(s) = n - 1},
                                          w \in WinsServers}

\* no request
WlIdle ==
    [pc |-> "idle", servers |-> <<>>, num_sent |-> 0, req |-> "none",
     dead |-> {}, outcomes |-> <<>>, marked |-> <<>>]

\* faulty variant: every failed query marks its server dead
query_wins_list_done_any_error(st, nt) ==
    LET s1 == [st EXCEPT !.outcomes = Append(@, nt)]
    IN  IF nt = "NT_STATUS_OK"
        THEN [s1 EXCEPT !.pc = "done", !.req = nt, !.marked = Append(@, FALSE)]
        ELSE LET s2 == [s1 EXCEPT !.dead = @ \cup {st.servers[st.num_sent]},
                                  !.marked = Append(@, TRUE)]
             IN  IF nt # "NT_STATUS_IO_TIMEOUT"
                 THEN [s2 EXCEPT !.pc = "done", !.req = nt]
                 ELSE IF s2.num_sent = Len(s2.servers)
                 THEN [s2 EXCEPT !.pc = "done", !.req = "NT_STATUS_NOT_FOUND"]
                 ELSE [s2 EXCEPT !.num_sent = @ + 1]

\* faulty variant: after a negative answer the next server is asked
query_wins_list_done_next_on_negative(st, nt) ==
    LET s1 == [st EXCEPT !.outcomes = Append(@, nt)]
    IN  IF nt = "NT_STATUS_OK"
        THEN [s1 EXCEPT !.pc = "done", !.req = nt, !.marked = Append(@, FALSE)]
        ELSE IF nt \notin {"NT_STATUS_IO_TIMEOUT", "NT_STATUS_NOT_FOUND"}
        THEN [s1 EXCEPT !.pc = "done", !.req = nt, !.marked = Append(@, FALSE)]
        ELSE LET s2 == [s1 EXCEPT !.dead = IF nt = "NT_STATUS_IO_TIMEOUT"
                                           THEN @ \cup {st.servers[st.num_sent]} ELSE @,
                                  !.marked = Append(@, nt = "NT_STATUS_IO_TIMEOUT")]
             IN  IF s2.num_sent = Len(s2.servers)
                 THEN [s2 EXCEPT !.pc = "done", !.req = "NT_STATUS_NOT_FOUND"]
                 ELSE [s2 EXCEPT !.num_sent = @ + 1]

\* query_wins_list_done for the query that name_query_recv returns nt for;
\* servers[num_sent] here is servers[num_sent - 1] of the code
query_wins_list_done(st, nt) ==
    LET s1 == [st EXCEPT !.outcomes = Append(@, nt)]
    IN  IF nt = "NT_STATUS_OK"
        THEN [s1 EXCEPT !.pc = "done", !.req = nt, !.marked = Append(@, FALSE)]
        ELSE IF nt # "NT_STATUS_IO_TIMEOUT"
        THEN [s1 EXCEPT !.pc = "done", !.req = nt, !.marked = Append(@, FALSE)]
        ELSE LET s2 == [s1 EXCEPT !.dead = @ \cup {st.servers[st.num_sent]},
                                  !.marked = Append(@, TRUE)]
             IN  IF s2.num_sent = Len(s2.servers)
                 THEN [s2 EXCEPT !.pc = "done", !.req = "NT_STATUS_NOT_FOUND"]
                 ELSE [s2 EXCEPT !.num_sent = @ + 1]

\* query_wins_list_send: no server is NT_STATUS_NOT_FOUND, else the first
\* server is queried
QueryWinsListSend ==
    /\ wl.pc = "idle"
    /\ \E servers \in ServerLists(MaxServers) :
         IF Len(servers) = 0
         THEN wl' = [WlIdle EXCEPT !.pc = "done", !.req = "NT_STATUS_NOT_FOUND"]
         ELSE wl' = [WlIdle EXCEPT !.pc = "pending", !.servers = servers,
                                   !.num_sent = 1, !.req = "IN_PROGRESS"]
    /\ UNCHANGED <<now, resolveVars, safVars, nq, nqs, rw, ads, srt, spr, tr, wq, gd>>

\* the query in flight completes and query_wins_list_done runs
QueryWinsListDone ==
    /\ wl.pc = "pending"
    /\ \E nt \in QueryStatuses(FALSE) : wl' = query_wins_list_done(wl, nt)
    /\ UNCHANGED <<now, resolveVars, safVars, nq, nqs, rw, ads, srt, spr, tr, wq, gd>>

(***************************************************************************)
(* resolve_wins: one query_wins_list chain per WINS tag, all in flight     *)
(* together                                                                *)
(***************************************************************************)
MaxTags == 3          \* how many WINS tags are configured

\* the server lists a tag can be configured with
TagServers ==
    {<<V4("10.0.0.7")>>, <<V4("10.0.0.7"), V4("10.0.0.8")>>,
     <<V4("10.0.0.8"), V4("10.9.0.9")>>}

\* the address of this host, for ismyip_v4
MyIp == V4("10.0.0.7")

\* what query_wins_list_recv can return: the timeout of a server is never
\* passed on
ChainStatuses == QueryStatuses(FALSE) \ {"NT_STATUS_IO_TIMEOUT"}

\* no request
RwIdle ==
    [pc |-> "idle", tags |-> <<>>, dead |-> {}, in_nmbd |-> FALSE,
     launched |-> <<>>, num_sent |-> 0, num_received |-> 0, chains |-> <<>>,
     req |-> "none", delivered |-> <<>>]

\* faulty variant: the servers flagged dead are kept
Alive_with_dead(servers, dead, in_nmbd) ==
    SelectSeq(servers, LAMBDA w : ~(in_nmbd /\ w = MyIp))

\* the servers of a tag that resolve_wins_send keeps
Alive(servers, dead, in_nmbd) ==
    SelectSeq(servers, LAMBDA w : ~(in_nmbd /\ w = MyIp) /\ w \notin dead)

\* the tags with a server kept, in tag order
RECURSIVE Launched(_, _, _)
Launched(tags, dead, in_nmbd) ==
    IF tags = <<>> THEN <<>>
    ELSE LET alive == Alive(Head(tags), dead, in_nmbd)
             rest == Launched(Tail(tags), dead, in_nmbd)
         IN  IF alive = <<>> THEN rest ELSE <<alive>> \o rest

\* resolve_wins_send: the request after it returns
resolve_wins_send(tags, dead, in_nmbd, family) ==
    LET st == [RwIdle EXCEPT !.tags = tags, !.dead = dead, !.in_nmbd = in_nmbd]
        launched == Launched(tags, dead, in_nmbd)
    IN  IF Len(tags) < 1
        THEN [st EXCEPT !.pc = "done", !.req = "NT_STATUS_INVALID_PARAMETER"]
        ELSE IF family # "AF_INET"
        THEN [st EXCEPT !.pc = "done", !.req = "NT_STATUS_INVALID_PARAMETER"]
        ELSE IF Len(launched) = 0
        THEN [st EXCEPT !.pc = "done", !.req = "NT_STATUS_NOT_FOUND"]
        ELSE [st EXCEPT !.pc = "pending", !.req = "IN_PROGRESS",
                        !.launched = launched,
                        !.num_sent = Len(launched),
                        !.chains = [k \in 1..Len(launched) |-> "pending"]]

\* faulty variant: the first failed chain fails the request
resolve_wins_done_fail_first(st, c, nt) ==
    LET s1 == [st EXCEPT !.chains[c] = nt,
                         !.delivered = Append(@, [chain |-> c, status |-> nt])]
    IN  IF nt = "NT_STATUS_OK"
        THEN [s1 EXCEPT !.pc = "done", !.req = nt]
        ELSE [s1 EXCEPT !.num_received = @ + 1, !.pc = "done", !.req = nt]

\* resolve_wins_done for chain c that query_wins_list_recv returns nt for
resolve_wins_done(st, c, nt) ==
    LET s1 == [st EXCEPT !.chains[c] = nt,
                         !.delivered = Append(@, [chain |-> c, status |-> nt])]
    IN  IF nt = "NT_STATUS_OK"
        THEN [s1 EXCEPT !.pc = "done", !.req = nt]
        ELSE LET s2 == [s1 EXCEPT !.num_received = @ + 1]
             IN  IF s2.num_received < s2.num_sent
                 THEN s2
                 ELSE [s2 EXCEPT !.pc = "done", !.req = nt]

\* resolve_wins_send with the configuration and the dead servers it finds
ResolveWinsSend ==
    /\ rw.pc = "idle"
    /\ \E tags \in SeqsUpTo(TagServers, MaxTags), dead \in SUBSET WinsServers,
          in_nmbd \in BOOLEAN, family \in {"AF_INET", "AF_INET6"} :
         rw' = resolve_wins_send(tags, dead, in_nmbd, family)
    /\ UNCHANGED <<now, resolveVars, safVars, nq, nqs, wl, ads, srt, spr, tr, wq, gd>>

\* a chain completes while resolve_wins polls its request, and
\* resolve_wins_done runs
ResolveWinsDone ==
    /\ rw.pc = "pending"
    /\ \E c \in 1..Len(rw.chains), nt \in ChainStatuses :
         /\ rw.chains[c] = "pending"
         /\ rw' = resolve_wins_done(rw, c, nt)
    /\ UNCHANGED <<now, resolveVars, safVars, nq, nqs, wl, ads, srt, spr, tr, wq, gd>>

(***************************************************************************)
(* resolve_ads: the SRV reply split into embedded addresses and host names *)
(* to look up, and dns_lookup_list_async: the A and AAAA lookups of these  *)
(* names under one deadline (built with HAVE_IPV6)                         *)
(***************************************************************************)
MaxDcs == 2           \* how many SRV records the reply holds

\* dcs[i].hostname == NULL
NoName == "NULL"

\* the host name of the i-th SRV record
DcNames == <<"dc1", "dc2", "dc3">>

\* the addresses a SRV record can carry; <<>> is dcs[i].ss_s == NULL
EmbeddedIps == {<<>>, <<Host4>>, <<Zero4, Far4>>, <<Host6, Zero6>>}

\* a SRV record
SrvRecord(hostname, ips) == [hostname |-> hostname, ips |-> ips]

\* the records that can stand at place k of the reply
SrvRecords(k) ==
    {SrvRecord(NoName, <<>>)} \cup {SrvRecord(DcNames[k], e) : e \in EmbeddedIps}

\* the SRV replies
SrvReplies ==
    UNION {{l \in [1..n -> UNION {SrvRecords(k) : k \in 1..n}] :
               \A k \in 1..n : l[k] \in SrvRecords(k)} : n \in 0..MaxDcs}

\* a zeroed struct samba_sockaddr, as talloc_zero_array leaves it
ZeroSa == [family |-> "AF_UNSPEC", addr |-> ""]

\* the addresses the q-th lookup can deliver
DnsAddrs ==
    <<  <<V4("10.1.1.1"), V4("10.1.1.2")>>, <<V6("fd00:1::1"), V6("fd00:1::2")>>,
        <<V4("10.1.2.1"), V4("10.1.2.2")>>, <<V6("fd00:2::1"), V6("fd00:2::2")>>,
        <<V4("10.1.3.1"), V4("10.1.3.2")>>, <<V6("fd00:3::1"), V6("fd00:3::2")>>  >>

\* what ads_dns_lookup_a_recv or ads_dns_lookup_aaaa_recv returns
DnsReply(nt, rcode, addrs) == [status |-> nt, rcode |-> rcode, addrs |-> addrs]

NoReply == DnsReply("none", 0, <<>>)

\* the replies of the q-th lookup
DnsReplies(q) ==
    {DnsReply("NT_STATUS_UNSUCCESSFUL", 0, <<>>),
     DnsReply("NT_STATUS_OK", 3, <<DnsAddrs[q][1]>>),
     DnsReply("NT_STATUS_OK", 0, <<>>),
     DnsReply("NT_STATUS_OK", 0, <<DnsAddrs[q][1]>>),
     DnsReply("NT_STATUS_OK", 0, DnsAddrs[q])}

\* struct dns_query_state, with the reply kept as history
DnsQuery(query_name, kind) ==
    [query_name |-> query_name, kind |-> kind, returned |-> FALSE,
     reply |-> NoReply, num_addrs |-> 0, addrs |-> <<>>]

\* no call
AdsIdle ==
    [pc |-> "idle", dcs |-> <<>>, srv_addrs |-> <<>>, dns_lookup_names |-> <<>>,
     queries |-> <<>>, num_query_returns |-> 0, timed_out |-> FALSE,
     dns_addrs |-> <<>>, status |-> "none", ret |-> <<>>]

\* resolve_ads, first and second loop: the non-zero addresses of the SRV
\* records, in record order
RECURSIVE SrvAddrs(_)
SrvAddrs(dcs) ==
    IF dcs = <<>> THEN <<>>
    ELSE SelectSeq(Head(dcs).ips, LAMBDA ss : ~is_zero_addr(ss)) \o SrvAddrs(Tail(dcs))

\* resolve_ads, first and third loop: the host names of the records without
\* addresses, in record order
RECURSIVE LookupNames(_)
LookupNames(dcs) ==
    IF dcs = <<>> THEN <<>>
    ELSE (IF Head(dcs).ips = <<>> /\ Head(dcs).hostname # NoName
          THEN <<Head(dcs).hostname>> ELSE <<>>)
         \o LookupNames(Tail(dcs))

\* dns_lookup_list_async, send loop: an A and an AAAA lookup per name
RECURSIVE IssueQueries(_)
IssueQueries(names) ==
    IF names = <<>> THEN <<>>
    ELSE <<DnsQuery(Head(names), "A"), DnsQuery(Head(names), "AAAA")>>
         \o IssueQueries(Tail(names))

\* faulty variant: the DNS return code is not looked at
dns_lookup_list_a_done_any_rcode(query, reply) ==
    IF reply.status # "NT_STATUS_OK" \/ Len(reply.addrs) = 0
    THEN [query EXCEPT !.returned = TRUE, !.reply = reply]
    ELSE [query EXCEPT !.returned = TRUE, !.reply = reply,
                       !.addrs = reply.addrs, !.num_addrs = Len(reply.addrs)]

\* dns_lookup_list_a_done and dns_lookup_list_aaaa_done: the query state
\* after the callback
dns_lookup_list_a_done(query, reply) ==
    IF reply.status # "NT_STATUS_OK" \/ reply.rcode # 0 \/ Len(reply.addrs) = 0
    THEN [query EXCEPT !.returned = TRUE, !.reply = reply]
    ELSE [query EXCEPT !.returned = TRUE, !.reply = reply,
                       !.addrs = reply.addrs, !.num_addrs = Len(reply.addrs)]

\* the sum of num_addrs over the queries
RECURSIVE CountAddrs(_)
CountAddrs(queries) ==
    IF queries = <<>> THEN 0 ELSE Head(queries).num_addrs + CountAddrs(Tail(queries))

\* the inner copy loop: every address of the query is written to
\* addr_out[num_addrs]
RECURSIVE CopyQuery(_, _, _, _)
CopyQuery(addr_out, num_addrs, addrs, j) ==
    IF j > Len(addrs) THEN addr_out
    ELSE CopyQuery([addr_out EXCEPT ![num_addrs + 1] = addrs[j]], num_addrs, addrs, j + 1)

\* the outer copy loop over the queries from the q-th on
RECURSIVE CopyOut(_, _, _, _)
CopyOut(addr_out, num_addrs, queries, q) ==
    IF q > Len(queries) THEN addr_out
    ELSE CopyOut(CopyQuery(addr_out, num_addrs, queries[q].addrs, 1),
                 num_addrs + queries[q].num_addrs, queries, q + 1)

\* dns_lookup_list_async after its wait loop: *pp_addrs
dns_lookup_list_async(queries) ==
    CopyOut([k \in 1..CountAddrs(queries) |-> ZeroSa], 0, queries, 1)

\* faulty variant: the looked-up addresses come first
resolve_ads_merge_dns_first(srv_addrs, dns_addrs) == dns_addrs \o srv_addrs

\* resolve_ads, the last two loops: ret_addrs
resolve_ads_merge(srv_addrs, dns_addrs) == srv_addrs \o dns_addrs

\* the call after dns_lookup_list_async has returned
AdsReturn(st) ==
    LET dns_addrs == dns_lookup_list_async(st.queries)
    IN  [st EXCEPT !.pc = "done", !.dns_addrs = dns_addrs,
                   !.status = "NT_STATUS_OK",
                   !.ret = resolve_ads_merge(st.srv_addrs, dns_addrs)]

\* the wait loop of dns_lookup_list_async goes on
Waiting(st) == ~st.timed_out /\ st.num_query_returns # Len(st.queries)

\* resolve_ads up to the wait loop of dns_lookup_list_async
ResolveAdsCall ==
    /\ ads.pc = "idle"
    /\ \E type \in {28, 32}, srv \in {"NT_STATUS_OK", "NT_STATUS_NOT_FOUND"},
          dcs \in SrvReplies :
         IF type # 28 /\ type # KDC_NAME_TYPE /\ type # 27
         THEN ads' = [AdsIdle EXCEPT !.pc = "done",
                                     !.status = "NT_STATUS_INVALID_PARAMETER"]
         ELSE IF srv # "NT_STATUS_OK"
         THEN ads' = [AdsIdle EXCEPT !.pc = "done", !.status = srv]
         ELSE IF Len(dcs) = 0
         THEN ads' = [AdsIdle EXCEPT !.pc = "done", !.status = "NT_STATUS_OK"]
         ELSE LET names == LookupNames(dcs)
                  st == [AdsIdle EXCEPT !.dcs = dcs,
                                        !.srv_addrs = SrvAddrs(dcs),
                                        !.dns_lookup_names = names,
                                        !.queries = IssueQueries(names)]
              IN  IF Len(names) = 0
                  THEN ads' = AdsReturn(st)
                  ELSE ads' = [st EXCEPT !.pc = "waiting"]
    /\ UNCHANGED <<now, resolveVars, safVars, nq, nqs, wl, rw, srt, spr, tr, wq, gd>>

\* a lookup completes inside tevent_loop_once; the loop ends with the last one
DnsLookupReturn ==
    /\ ads.pc = "waiting"
    /\ \E q \in 1..Len(ads.queries) :
         /\ ~ads.queries[q].returned
         /\ \E reply \in DnsReplies(q) :
              LET st == [ads EXCEPT !.queries[q] = dns_lookup_list_a_done(@, reply),
                                    !.num_query_returns = @ + 1]
              IN  ads' = IF Waiting(st) THEN st ELSE AdsReturn(st)
    /\ UNCHANGED <<now, resolveVars, safVars, nq, nqs, wl, rw, srt, spr, tr, wq, gd>>

\* dns_lookup_send_timeout_handler runs inside tevent_loop_once
DnsLookupTimeout ==
    /\ ads.pc = "waiting"
    /\ ads' = AdsReturn([ads EXCEPT !.timed_out = TRUE])
    /\ UNCHANGED <<now, resolveVars, safVars, nq, nqs, wl, rw, srt, spr, tr, wq, gd>>

(***************************************************************************)
(* prioritize_ipv4_list and addr_compare called on inputs of their own     *)
(***************************************************************************)
MaxSortList == 3      \* longest list given to prioritize_ipv4_list

Far6 == V6("fd99::1")

\* an IPv6 interface next to the IPv4 ones
If6 == Interface(V6("fd00::1"), V6("fd00::ffff"), 112)

\* the interfaces addr_compare finds
CompareInterfaceSets == InterfaceSets \cup {<<If6>>, <<If0, If6, If1>>}

\* the addresses compared
CompareAddrs == {Zero4, Host4, Far4, Bcast4, V4("10.0.0.1"), Zero6, Host6, Far6}

\* the lists given to prioritize_ipv4_list
PrioritizeLists ==
    SeqsUpTo({Service(a, p) : a \in {Host4, Far4, Host6, Zero6}, p \in {PORT_NONE, 389}},
             MaxSortList)

\* no call
SrtIdle ==
    [op |-> "none", list |-> <<>>, out |-> <<>>, ifs |-> <<>>,
     a |-> NoAddr, b |-> NoAddr, c |-> NoAddr,
     aa |-> 0, ab |-> 0, ba |-> 0, bc |-> 0, ac |-> 0]

\* faulty variant: the entries that are not IPv4 are copied from the end
prioritize_ipv4_list_backwards(l) ==
    LET rest == SelectSeq(l, LAMBDA e : e.ss.family # "AF_INET")
    IN  SelectSeq(l, LAMBDA e : e.ss.family = "AF_INET")
        \o [k \in 1..Len(rest) |-> rest[Len(rest) + 1 - k]]

\* prioritize_ipv4_list: the list after the two copy loops and the memcpy
prioritize_ipv4_list(l) ==
    SelectSeq(l, LAMBDA e : e.ss.family = "AF_INET")
    \o SelectSeq(l, LAMBDA e : e.ss.family # "AF_INET")

CallPrioritizeIpv4List ==
    /\ srt.op = "none"
    /\ \E l \in PrioritizeLists :
         srt' = [SrtIdle EXCEPT !.op = "prioritize_ipv4_list", !.list = l,
                                !.out = prioritize_ipv4_list(l)]
    /\ UNCHANGED <<now, resolveVars, safVars, nq, nqs, wl, rw, ads, spr, tr, wq, gd>>

\* addr_compare on the pairs of three addresses
CallAddrCompare ==
    /\ srt.op = "none"
    /\ \E ifs \in CompareInterfaceSets, a \in CompareAddrs, b \in CompareAddrs,
          c \in CompareAddrs :
         srt' = [SrtIdle EXCEPT !.op = "addr_compare", !.ifs = ifs,
                                !.a = a, !.b = b, !.c = c,
                                !.aa = addr_compare(a, a, ifs),
                                !.ab = addr_compare(a, b, ifs),
                                !.ba = addr_compare(b, a, ifs),
                                !.bc = addr_compare(b, c, ifs),
                                !.ac = addr_compare(a, c, ifs)]
    /\ UNCHANGED <<now, resolveVars, safVars, nq, nqs, wl, rw, ads, spr, tr, wq, gd>>

(***************************************************************************)
(* sock_packet_read: the first acceptable packet from the socket or from   *)
(* the relay reader of nmbd                                                *)
(***************************************************************************)
\* the transaction ids of the model; -1 switches the check off
TrnIds == {7, 8, 9}

\* what map_nt_error_from_unix makes of a failed tdgram_recvfrom
SocketErrors == {"NT_STATUS_CONNECTION_REFUSED", "NT_STATUS_IO_DEVICE_ERROR"}

\* what nb_packet_read_recv reports when the relay is lost
ReaderErrors == {"NT_STATUS_END_OF_FILE", "NT_STATUS_PIPE_BROKEN"}

\* a datagram read from the socket: is its sender IPv4, does parse_packet
\* accept it, its transaction id, does the validator accept it
Datagram(inet4, parses, trn_id, valid) ==
    [inet4 |-> inet4, parses |-> parses, trn_id |-> trn_id, valid |-> valid]

Datagrams ==
    {Datagram(i4, p, t, v) : i4 \in BOOLEAN, p \in BOOLEAN, t \in TrnIds, v \in BOOLEAN}

\* a packet handed over by the relay reader
RelayPackets == {Datagram(TRUE, TRUE, t, v) : t \in TrnIds, v \in BOOLEAN}

NoDatagram == Datagram(FALSE, FALSE, -1, FALSE)

\* nb_packet_read on a reader subscribed for trn_id: the relay hands over the
\* packets of that transaction id, every packet when it is -1
nb_packet_read(trn_id) == {p \in RelayPackets : trn_id = -1 \/ p.trn_id = trn_id}

\* no request
SprIdle ==
    [pc |-> "idle", reader |-> FALSE, trn_id |-> -1,
     reader_req |-> FALSE, socket_req |-> FALSE,
     packet |-> NoDatagram, via |-> "none", status |-> "none",
     failures |-> <<>>, rearmed |-> "none"]

\* sock_packet_read_send: one read on the relay reader when there is one, and
\* one on the socket
SockPacketReadSend ==
    /\ spr.pc = "idle"
    /\ \E reader \in BOOLEAN, trn_id \in TrnIds \cup {-1} :
         spr' = [SprIdle EXCEPT !.pc = "pending", !.reader = reader,
                                !.trn_id = trn_id, !.reader_req = reader,
                                !.socket_req = TRUE]
    /\ UNCHANGED <<now, resolveVars, safVars, nq, nqs, wl, rw, ads, srt, tr, wq, gd>>

\* faulty variant: when both reads have failed the error of the socket is
\* reported
sock_packet_read_got_packet_socket_error(st, nt, p) ==
    IF nt # "NT_STATUS_OK"
    THEN IF st.socket_req
         THEN [st EXCEPT !.reader_req = FALSE,
                         !.failures = Append(@, <<"reader", nt>>),
                         !.rearmed = "none"]
         ELSE [st EXCEPT !.reader_req = FALSE, !.pc = "failed",
                         !.status = st.failures[Len(st.failures)][2],
                         !.failures = Append(@, <<"reader", nt>>),
                         !.rearmed = "none"]
    ELSE IF ~p.valid
    THEN [st EXCEPT !.reader_req = TRUE, !.rearmed = "reader"]
    ELSE [st EXCEPT !.reader_req = FALSE, !.socket_req = FALSE, !.pc = "done",
                    !.packet = p, !.via = "reader", !.status = "NT_STATUS_OK",
                    !.rearmed = "none"]

\* faulty variant: the transaction id of a datagram is not looked at
sock_packet_read_got_socket_any_trn_id(st, nt, d) ==
    IF nt # "NT_STATUS_OK"
    THEN IF st.reader_req
         THEN [st EXCEPT !.socket_req = FALSE,
                         !.failures = Append(@, <<"socket", nt>>),
                         !.rearmed = "none"]
         ELSE [st EXCEPT !.socket_req = FALSE, !.pc = "failed", !.status = nt,
                         !.failures = Append(@, <<"socket", nt>>),
                         !.rearmed = "none"]
    ELSE IF ~d.inet4 \/ ~d.parses \/ ~d.valid
    THEN [st EXCEPT !.socket_req = TRUE, !.rearmed = "socket"]
    ELSE [st EXCEPT !.socket_req = FALSE, !.pc = "done", !.packet = d,
                    !.via = "socket", !.status = "NT_STATUS_OK",
                    !.rearmed = "none"]

\* faulty variant: the first failure of the relay reader ends the request
sock_packet_read_got_packet_fail_alone(st, nt, p) ==
    IF nt # "NT_STATUS_OK"
    THEN [st EXCEPT !.reader_req = FALSE, !.pc = "failed", !.status = nt,
                    !.failures = Append(@, <<"reader", nt>>), !.rearmed = "none"]
    ELSE IF ~p.valid
    THEN [st EXCEPT !.reader_req = TRUE, !.rearmed = "reader"]
    ELSE [st EXCEPT !.reader_req = FALSE, !.socket_req = FALSE, !.pc = "done",
                    !.packet = p, !.via = "reader", !.status = "NT_STATUS_OK",
                    !.rearmed = "none"]

\* sock_packet_read_got_packet: the relay read returned status nt and packet p
sock_packet_read_got_packet(st, nt, p) ==
    IF nt # "NT_STATUS_OK"
    THEN IF st.socket_req
         THEN [st EXCEPT !.reader_req = FALSE,
                         !.failures = Append(@, <<"reader", nt>>),
                         !.rearmed = "none"]
         ELSE [st EXCEPT !.reader_req = FALSE, !.pc = "failed", !.status = nt,
                         !.failures = Append(@, <<"reader", nt>>),
                         !.rearmed = "none"]
    ELSE IF ~p.valid
    THEN [st EXCEPT !.reader_req = TRUE, !.rearmed = "reader"]
    ELSE [st EXCEPT !.reader_req = FALSE, !.socket_req = FALSE, !.pc = "done",
                    !.packet = p, !.via = "reader", !.status = "NT_STATUS_OK",
                    !.rearmed = "none"]

\* sock_packet_read_got_socket: the socket read returned error nt, or
\* datagram d when nt is NT_STATUS_OK
sock_packet_read_got_socket(st, nt, d) ==
    IF nt # "NT_STATUS_OK"
    THEN IF st.reader_req
         THEN [st EXCEPT !.socket_req = FALSE,
                         !.failures = Append(@, <<"socket", nt>>),
                         !.rearmed = "none"]
         ELSE [st EXCEPT !.socket_req = FALSE, !.pc = "failed", !.status = nt,
                         !.failures = Append(@, <<"socket", nt>>),
                         !.rearmed = "none"]
    ELSE IF \/ ~d.inet4
            \/ ~d.parses
            \/ st.trn_id # -1 /\ st.trn_id # d.trn_id
            \/ ~d.valid
    THEN [st EXCEPT !.socket_req = TRUE, !.rearmed = "socket"]
    ELSE [st EXCEPT !.socket_req = FALSE, !.pc = "done", !.packet = d,
                    !.via = "socket", !.status = "NT_STATUS_OK",
                    !.rearmed = "none"]

\* the relay read completes
SockPacketReadGotPacket ==
    /\ spr.pc = "pending"
    /\ spr.reader_req
    /\ \/ \E nt \in ReaderErrors : spr' = sock_packet_read_got_packet(spr, nt, NoDatagram)
       \/ \E p \in nb_packet_read(spr.trn_id) :
             spr' = sock_packet_read_got_packet(spr, "NT_STATUS_OK", p)
    /\ UNCHANGED <<now, resolveVars, safVars, nq, nqs, wl, rw, ads, srt, tr, wq, gd>>

\* the socket read completes
SockPacketReadGotSocket ==
    /\ spr.pc = "pending"
    /\ spr.socket_req
    /\ \/ \E nt \in SocketErrors : spr' = sock_packet_read_got_socket(spr, nt, NoDatagram)
       \/ \E d \in Datagrams : spr' = sock_packet_read_got_socket(spr, "NT_STATUS_OK", d)
    /\ UNCHANGED <<now, resolveVars, safVars, nq, nqs, wl, rw, ads, srt, tr, wq, gd>>

(***************************************************************************)
(* nb_trans under the deadline of its caller: node_status_query, and the   *)
(* name_query that name_resolve_bcast and resolve_wins come down to        *)
(***************************************************************************)
NbtDeadline == 3      \* seconds until the deadline; 10 in node_status_query_send

\* the entry points
NbtKinds == {"node_status_query", "name_query", "name_resolve_bcast", "resolve_wins"}

\* no request; wakeup and endtime are the times they are due, -1 for none;
\* sends, returned, armed and fired count the calls of tdgram_sendto_send, the
\* sends that came back, the wakeups armed and the wakeups that fired
TrIdle ==
    [pc |-> "idle", kind |-> "none", disable_netbios |-> FALSE,
     socket |-> FALSE, sendto |-> FALSE, wakeup |-> -1, sends |-> 0,
     t |-> 0, endtime |-> -1, req |-> "none",
     returned |-> 0, armed |-> 0, fired |-> 0]

\* the status an entry point fails with before nb_trans_send is called, or
\* "none": name_resolve_bcast_send looks at disable netbios itself,
\* resolve_wins_send wants an IPv4 source address, name_query_send an IPv4
\* destination and looks at disable netbios, node_status_query_send wants an
\* IPv4 destination only
EarlyStatus(kind, disable_netbios, family) ==
    CASE kind = "name_resolve_bcast" ->
             IF disable_netbios THEN "NT_STATUS_INVALID_PARAMETER" ELSE "none"
      [] kind = "resolve_wins" ->
             IF family # "AF_INET" THEN "NT_STATUS_INVALID_PARAMETER"
             ELSE IF disable_netbios THEN "NT_STATUS_NOT_SUPPORTED"
             ELSE "none"
      [] kind = "name_query" ->
             IF family # "AF_INET" THEN "NT_STATUS_INVALID_ADDRESS"
             ELSE IF disable_netbios THEN "NT_STATUS_NOT_SUPPORTED"
             ELSE "none"
      [] kind = "node_status_query" ->
             IF family # "AF_INET" THEN "NT_STATUS_INVALID_ADDRESS" ELSE "none"

\* faulty variant: no deadline is set on the request
nbt_request_send_no_endtime(kind, disable_netbios, family, sock_ok) ==
    LET st == [TrIdle EXCEPT !.kind = kind, !.disable_netbios = disable_netbios]
        early == EarlyStatus(kind, disable_netbios, family)
    IN  IF early # "none"
        THEN [st EXCEPT !.pc = "done", !.req = early]
        ELSE IF ~sock_ok
        THEN [st EXCEPT !.pc = "done", !.req = "NT_STATUS_ACCESS_DENIED"]
        ELSE [st EXCEPT !.pc = "reader", !.socket = TRUE, !.req = "IN_PROGRESS"]

\* the request after its send function has returned: failed, or with the
\* socket of nb_trans_send open, nb_packet_reader_send under way and the
\* deadline set
nbt_request_send(kind, disable_netbios, family, sock_ok) ==
    LET st == [TrIdle EXCEPT !.kind = kind, !.disable_netbios = disable_netbios]
        early == EarlyStatus(kind, disable_netbios, family)
    IN  IF early # "none"
        THEN [st EXCEPT !.pc = "done", !.req = early]
        ELSE IF ~sock_ok
        THEN [st EXCEPT !.pc = "done", !.req = "NT_STATUS_ACCESS_DENIED"]
        ELSE [st EXCEPT !.pc = "reader", !.socket = TRUE, !.req = "IN_PROGRESS",
                        !.endtime = NbtDeadline]

\* the request completes with status nt and its callback frees it
NbtComplete(st, nt) ==
    [st EXCEPT !.pc = "done", !.req = nt, !.sendto = FALSE, !.wakeup = -1]

\* the race freed with the request
SprFreed(st) ==
    IF st.pc = "pending"
    THEN [st EXCEPT !.pc = "freed", !.reader_req = FALSE, !.socket_req = FALSE]
    ELSE st

\* faulty variant: the request is sent again at once, next to the wakeup
nb_trans_sent_and_resend(st, sent) ==
    IF ~sent
    THEN NbtComplete([st EXCEPT !.returned = @ + 1], "NT_STATUS_NETWORK_UNREACHABLE")
    ELSE [st EXCEPT !.returned = @ + 1, !.sends = @ + 1,
                    !.wakeup = st.t + 1, !.armed = @ + 1]

\* nb_trans_sent: a failed send ends the request, after any other the wakeup
\* of one second is armed
nb_trans_sent(st, sent) ==
    IF ~sent
    THEN NbtComplete([st EXCEPT !.returned = @ + 1], "NT_STATUS_NETWORK_UNREACHABLE")
    ELSE [st EXCEPT !.sendto = FALSE, !.returned = @ + 1,
                    !.wakeup = st.t + 1, !.armed = @ + 1]

\* nb_trans_send_next: the wakeup has fired and the buffer is sent again
nb_trans_send_next(st) ==
    [st EXCEPT !.wakeup = -1, !.fired = @ + 1, !.sendto = TRUE, !.sends = @ + 1]

\* the request is under way
NbtActive(st) == st.pc \in {"reader", "race"}

NbtRequestSend ==
    /\ tr.pc = "idle"
    /\ spr.pc = "idle"
    /\ \E kind \in NbtKinds, disable_netbios \in BOOLEAN,
          family \in {"AF_INET", "AF_INET6"}, sock_ok \in BOOLEAN :
         tr' = nbt_request_send(kind, disable_netbios, family, sock_ok)
    /\ UNCHANGED <<now, resolveVars, safVars, nq, nqs, wl, rw, ads, srt, spr, wq, gd>>

\* nb_trans_got_reader: the race is started, with the relay reader when nmbd
\* is around, and the request is sent for the first time
NbTransGotReader ==
    /\ tr.pc = "reader"
    /\ \E reader \in BOOLEAN :
         spr' = [SprIdle EXCEPT !.pc = "pending", !.reader = reader, !.trn_id = 7,
                                !.reader_req = reader, !.socket_req = TRUE]
    /\ tr' = [tr EXCEPT !.pc = "race", !.sendto = TRUE, !.sends = @ + 1]
    /\ UNCHANGED <<now, resolveVars, safVars, nq, nqs, wl, rw, ads, srt, wq, gd>>

\* nb_trans_sent: the send failed and ends the request, or the wakeup of one
\* second is armed
NbTransSent ==
    /\ tr.pc = "race"
    /\ tr.sendto
    /\ \/ /\ tr' = nb_trans_sent(tr, FALSE)
          /\ spr' = SprFreed(spr)
       \/ /\ tr' = nb_trans_sent(tr, TRUE)
          /\ spr' = spr
    /\ UNCHANGED <<now, resolveVars, safVars, nq, nqs, wl, rw, ads, srt, wq, gd>>

\* nb_trans_send_next: the wakeup is due and the request is sent again
NbTransSendNext ==
    /\ tr.pc = "race"
    /\ tr.wakeup # -1
    /\ tr.wakeup <= tr.t
    /\ tr' = nb_trans_send_next(tr)
    /\ UNCHANGED <<now, resolveVars, safVars, nq, nqs, wl, rw, ads, srt, spr, wq, gd>>

\* nb_trans_done: the race is over and its status ends the request
NbTransDone ==
    /\ tr.pc = "race"
    /\ spr.pc \in {"done", "failed"}
    /\ tr' = NbtComplete(tr, spr.status)
    /\ UNCHANGED <<now, resolveVars, safVars, nq, nqs, wl, rw, ads, srt, spr, wq, gd>>

\* a second passes; no timer is overdue
NbtTick ==
    /\ NbtActive(tr)
    /\ tr.t < tr.endtime
    /\ tr.wakeup = -1 \/ tr.wakeup > tr.t
    /\ tr' = [tr EXCEPT !.t = @ + 1]
    /\ UNCHANGED <<now, resolveVars, safVars, nq, nqs, wl, rw, ads, srt, spr, wq, gd>>

\* the deadline set with tevent_req_set_endtime ends the request
NbtEndtime ==
    /\ NbtActive(tr)
    /\ tr.endtime # -1
    /\ tr.endtime <= tr.t
    /\ tr' = NbtComplete(tr, "NT_STATUS_IO_TIMEOUT")
    /\ spr' = SprFreed(spr)
    /\ UNCHANGED <<now, resolveVars, safVars, nq, nqs, wl, rw, ads, srt, wq, gd>>

(***************************************************************************)
(* resolve_wins with its query_wins_list chains and the table of dead      *)
(* WINS servers, over several requests                                     *)
(***************************************************************************)
MaxRequests == 2      \* how many resolve_wins requests follow each other

\* lp_nbt_client_socket_address as an address
NbtClientAddrs == {Zero4, Host4, Host6}

\* the WINS tags configured: none, one tag, two tags with a server in common
WinsTagLists ==
    {<<>>,
     <<  <<V4("10.0.0.7"), V4("10.0.0.8")>>  >>,
     <<  <<V4("10.0.0.7")>>, <<V4("10.0.0.8"), V4("10.9.0.9")>>  >>}

\* my_socket_addr_v4: the configured address, zero when it is not IPv4
my_socket_addr_v4(cfg) == IF cfg.family # "AF_INET" THEN Zero4 ELSE cfg

\* wins_srv_is_dead over the whole table: the servers flagged for src_ip
DeadFor(table, src_ip) == {p[1] : p \in {e \in table : e[2] = src_ip}}

\* wins_srv_died for the servers of a set
Died(servers, src_ip) == {<<w, src_ip>> : w \in servers}

\* no request yet; table is the set of (server, source) pairs flagged dead
WqIdle ==
    [pc |-> "idle", requests |-> 0, table |-> {}, cfg |-> Zero4, tags |-> <<>>,
     start_dead |-> {}, rw |-> RwIdle, chains |-> <<>>, queried |-> {},
     marks |-> {}]

\* a query_wins_list chain started on its servers
StartChain(servers) ==
    [WlIdle EXCEPT !.pc = "pending", !.servers = servers, !.num_sent = 1,
                   !.req = "IN_PROGRESS"]

\* the servers the chains have sent a query to
Queried(chains) ==
    UNION {{chains[k].servers[j] : j \in 1..chains[k].num_sent} : k \in 1..Len(chains)}

\* resolve_wins_send for the configuration and the table as they are
WinsRequestSend ==
    /\ wq.pc \in {"idle", "done"}
    /\ wq.requests < MaxRequests
    /\ \E tags \in WinsTagLists, cfg \in NbtClientAddrs, in_nmbd \in BOOLEAN :
         LET dead == DeadFor(wq.table, cfg)
             r == resolve_wins_send(tags, dead, in_nmbd, cfg.family)
             chains == [k \in 1..Len(r.launched) |-> StartChain(r.launched[k])]
         IN  wq' = [wq EXCEPT !.pc = r.pc, !.requests = @ + 1, !.cfg = cfg,
                              !.tags = tags, !.start_dead = dead, !.rw = r,
                              !.chains = chains, !.queried = Queried(chains),
                              !.marks = {}]
    /\ UNCHANGED <<now, resolveVars, safVars, nq, nqs, wl, rw, ads, srt, spr, tr, gd>>

\* the query in flight of a chain ends: query_wins_list_done, and
\* resolve_wins_done when that ends the chain
WinsQueryDone ==
    /\ wq.pc = "pending"
    /\ \E k \in 1..Len(wq.chains), nt \in QueryStatuses(FALSE) :
         /\ wq.chains[k].pc = "pending"
         /\ LET chain == query_wins_list_done(wq.chains[k], nt)
                chains == [wq.chains EXCEPT ![k] = chain]
                died == Died(chain.dead \ wq.chains[k].dead, my_socket_addr_v4(wq.cfg))
                r == IF chain.pc = "done"
                     THEN resolve_wins_done(wq.rw, k, chain.req) ELSE wq.rw
            IN  wq' = [wq EXCEPT !.pc = r.pc, !.rw = r, !.chains = chains,
                                 !.queried = Queried(chains),
                                 !.table = @ \cup died, !.marks = @ \cup died]
    /\ UNCHANGED <<now, resolveVars, safVars, nq, nqs, wl, rw, ads, srt, spr, tr, gd>>

\* the flag of a server runs out
WinsFlagExpires ==
    /\ wq.pc = "done"
    /\ \E e \in wq.table : wq' = [wq EXCEPT !.table = @ \ {e}]
    /\ UNCHANGED <<now, resolveVars, safVars, nq, nqs, wl, rw, ads, srt, spr, tr, gd>>

(***************************************************************************)
(* get_dc_list: the preferred servers and the automatic lookup made into   *)
(* one list of domain controllers                                          *)
(***************************************************************************)
MaxTokens == 3        \* how many tokens the preferred server list has

LDAP_PORT == 389
DEFAULT_KRB5_PORT == 88

\* the tokens of the list: the automatic lookup, two names that resolve_name
\* resolves and one it does not
DcTokens == {"*", "dc4", "dc6", "gone"}

\* resolve_name(name, &ss, 0x20, true) of an explicit server; NoAddr for none
ResolveExplicit(tok) ==
    CASE tok = "dc4" -> Host4
      [] tok = "dc6" -> Host6
      [] OTHER -> NoAddr

\* what internal_resolve_name can answer the automatic lookup with: a list
\* without zero addresses and duplicates, the ports PORT_NONE
AutoLookups ==
    {[status |-> "NT_STATUS_UNSUCCESSFUL", list |-> <<>>],
     [status |-> "NT_STATUS_OK", list |-> <<Service(Host4, PORT_NONE)>>],
     [status |-> "NT_STATUS_OK",
      list |-> <<Service(Host6, PORT_NONE), Service(Host4, PORT_NONE)>>],
     [status |-> "NT_STATUS_OK",
      list |-> <<Service(Far4, PORT_NONE), Service(Host6, PORT_NONE)>>]}

\* the addresses check_negative_conn_cache knows as bad
NegativeConnCaches == {{}, {Far4}, {Host4}}

LookupTypes == {"DC_NORMAL_LOOKUP", "DC_ADS_ONLY", "DC_KDC_ONLY"}

\* no call; written counts the entries stored in return_iplist, which has
\* room for num_addresses
GdIdle ==
    [pc |-> "idle", tokens |-> <<>>, lookup_type |-> "DC_NORMAL_LOOKUP",
     auto |-> [status |-> "none", list |-> <<>>], bad |-> {},
     path |-> "none", auto_lookups |-> 0, num_addresses |-> 0, written |-> 0,
     status |-> "none", ip_list |-> <<>>]

\* the first pass over the tokens: the first "*" stands for the addresses of
\* the automatic lookup, when that succeeded, every other token for one
RECURSIVE FirstPass(_, _, _)
FirstPass(tokens, auto, done_auto_lookup) ==
    IF tokens = <<>> THEN [num_addresses |-> 0, done_auto_lookup |-> done_auto_lookup]
    ELSE IF ~done_auto_lookup /\ Head(tokens) = "*"
    THEN LET rest == FirstPass(Tail(tokens), auto, TRUE)
         IN  [rest EXCEPT !.num_addresses =
                 @ + (IF auto.status = "NT_STATUS_OK" THEN Len(auto.list) ELSE 0)]
    ELSE LET rest == FirstPass(Tail(tokens), auto, done_auto_lookup)
         IN  [rest EXCEPT !.num_addresses = @ + 1]

\* the port of an explicit server
ExplicitPort(lookup_type) ==
    IF lookup_type = "DC_ADS_ONLY" THEN LDAP_PORT
    ELSE IF lookup_type = "DC_KDC_ONLY" THEN DEFAULT_KRB5_PORT
    ELSE PORT_NONE

\* the entries one token adds in the second pass
TokenEntries(tok, auto_list, bad, lookup_type) ==
    IF tok = "*"
    THEN SelectSeq(auto_list, LAMBDA e : e.ss \notin bad)
    ELSE IF ResolveExplicit(tok) = NoAddr \/ ResolveExplicit(tok) \in bad
    THEN <<>>
    ELSE <<Service(ResolveExplicit(tok), ExplicitPort(lookup_type))>>

\* the second pass: tokens are taken while local_count < num_addresses, and
\* a token's entries are stored without another look at num_addresses
RECURSIVE SecondPass(_, _, _, _, _, _)
SecondPass(tokens, filled, num_addresses, auto_list, bad, lookup_type) ==
    IF tokens = <<>> \/ ~(Len(filled) < num_addresses) THEN filled
    ELSE SecondPass(Tail(tokens),
                    filled \o TokenEntries(Head(tokens), auto_list, bad, lookup_type),
                    num_addresses, auto_list, bad, lookup_type)

\* the call after the second pass: duplicates removed, IPv4 first
Finish(st, filled) ==
    LET l == prioritize_ipv4_list(remove_duplicate_addrs2(filled))
    IN  [st EXCEPT !.pc = "done", !.written = Len(filled),
                   !.status = IF Len(l) # 0 THEN "NT_STATUS_OK"
                              ELSE "NT_STATUS_NO_LOGON_SERVERS",
                   !.ip_list = IF Len(l) # 0 THEN l ELSE <<>>]

\* get_dc_list for the tokens of pserver, the answer auto of
\* internal_resolve_name should it be asked, and the negative connection
\* cache; the set of the states the call can end in
get_dc_list(tokens, lookup_type, auto, bad) ==
    LET first == FirstPass(tokens, auto, FALSE)
        st == [GdIdle EXCEPT !.tokens = tokens, !.lookup_type = lookup_type,
                             !.auto = auto, !.bad = bad,
                             !.num_addresses = first.num_addresses,
                             !.auto_lookups = IF first.done_auto_lookup THEN 1 ELSE 0]
        auto_list == IF first.done_auto_lookup /\ auto.status = "NT_STATUS_OK"
                     THEN auto.list ELSE <<>>
        filled == SecondPass(tokens, <<>>, first.num_addresses, auto_list, bad,
                             lookup_type)
    IN  IF first.num_addresses = 0
        THEN IF first.done_auto_lookup
             THEN {[st EXCEPT !.pc = "done", !.path = "no servers",
                              !.status = "NT_STATUS_NO_LOGON_SERVERS"]}
             ELSE {[st EXCEPT !.pc = "done", !.path = "fallback",
                              !.auto_lookups = 1,
                              !.status = auto.status,
                              !.ip_list = IF auto.status = "NT_STATUS_OK"
                                          THEN auto.list ELSE <<>>]}
        ELSE IF Len(filled) > first.num_addresses
        \* return_iplist is written past its end: the call crashes, or the
        \* heap beyond the array takes the entries and the call goes on
        THEN {[st EXCEPT !.pc = "crashed", !.path = "tokens",
                         !.written = Len(filled)],
              Finish([st EXCEPT !.path = "tokens"], filled)}
        ELSE {Finish([st EXCEPT !.path = "tokens"], filled)}

CallGetDcList ==
    /\ gd.pc = "idle"
    /\ \E tokens \in SeqsUpTo(DcTokens, MaxTokens), lookup_type \in LookupTypes,
          auto \in AutoLookups, bad \in NegativeConnCaches :
         gd' \in get_dc_list(tokens, lookup_type, auto, bad)
    /\ UNCHANGED <<now, resolveVars, safVars, nq, nqs, wl, rw, ads, srt, spr, tr, wq>>

InitNbt ==
    /\ nq = NqIdle
    /\ nqs = NqsIdle
    /\ wl = WlIdle
    /\ rw = RwIdle
    /\ ads = AdsIdle
    /\ srt = SrtIdle
    /\ spr = SprIdle
    /\ tr = TrIdle
    /\ wq = WqIdle
    /\ gd = GdIdle

(***************************************************************************)
(* Time                                                                    *)
(***************************************************************************)
ClockStep == SAF_TTL \div 2

\* the clock advances between two calls
Tick ==
    /\ pc = "idle"
    /\ now < MaxTicks * ClockStep
    /\ now' = now + ClockStep
    /\ UNCHANGED resolveVars
    /\ UNCHANGED safVars
    /\ UNCHANGED nbtVars

(***************************************************************************)
(* Specifications                                                          *)
(***************************************************************************)
EmptyNameCache == [k \in CacheKeys |-> NoEntry]

\* gencache is a file shared with other processes and outlives this one:
\* the key may already hold an entry, written by any process
InitialNameCaches(n, type) ==
    {EmptyNameCache}
    \cup {[EmptyNameCache EXCEPT ![CacheKey(n, type)] =
                [addrs |-> l, expire |-> name_cache_timeout]] :
                l \in SeqsUpTo({Zero4, Host4}, MaxList)}

InitSaf ==
    /\ gencache = [k \in GenKeys |-> NoValue]
    /\ saf_op = SafOp("none", None, None, 0)
    /\ saf_ret = SafRet(FALSE, None)
    /\ saf_last = [d \in {ToUpper(x) : x \in Domains \ {None}} |-> NoValue]
    /\ saf_deleted = [d \in {ToUpper(x) : x \in Domains \ {None}} |-> "no"]

InitResolve ==
    /\ pc = "idle"
    /\ fn = "none"
    /\ resolve_order = <<>>
    /\ i = 1
    /\ cur_type = name_type
    /\ status = "none"
    /\ iplist = <<>>
    /\ icount = 0
    /\ path = "none"
    /\ dispatched = <<>>
    /\ cache_consulted = FALSE
    /\ orig_order = <<>>
    /\ live_at_entry = FALSE
    /\ stored_result = <<>>
    /\ prefer_ipv4 = FALSE
    /\ ret_ok = FALSE
    /\ return_ss = NoAddr
    /\ namecache \in InitialNameCaches(name, name_type)
    /\ dd_in = <<>>
    /\ dd_out = <<>>

\* the pipeline: one behaviour per key and per entry the key starts with
Init ==
    /\ now = 0
    /\ name \in Names
    /\ name_type \in NameTypes
    /\ InitResolve
    /\ InitSaf
    /\ InitNbt

NextResolve ==
    \/ CallInternalResolveName
    \/ CallResolveName
    \/ DispatchBackend
    \/ SkipTag
    \/ CallRemoveDuplicateAddrs2
    \/ ReturnToCaller
    \/ Tick

SpecResolve == Init /\ [][NextResolve]_vars

NextSaf ==
    \/ CallSafStore
    \/ CallSafJoinStore
    \/ CallSafDelete
    \/ CallSafFetch
    \/ Tick

\* the SAF cache: no resolution is running
InitSafOnly ==
    /\ now = 0
    /\ name = Name15
    /\ name_type = 32
    /\ InitResolve
    /\ namecache = EmptyNameCache
    /\ InitSaf
    /\ InitNbt

SpecSaf == InitSafOnly /\ [][NextSaf]_vars

NextNameQuery ==
    \/ NameQuerySend
    \/ NameQueryResponse
    \/ NameQueryTimeout
    \/ NameQueryRecv

\* one name query: no resolution and no SAF operation is running
SpecNameQuery == InitSafOnly /\ [][NextNameQuery]_vars

NextNameQueries ==
    \/ NameQueriesSend
    \/ NameQueriesNext
    \/ NameQueriesDone

\* one name_queries request
SpecNameQueries == InitSafOnly /\ [][NextNameQueries]_vars

NextWinsList ==
    \/ QueryWinsListSend
    \/ QueryWinsListDone

\* one query_wins_list request
SpecWinsList == InitSafOnly /\ [][NextWinsList]_vars

NextResolveWins ==
    \/ ResolveWinsSend
    \/ ResolveWinsDone

\* one resolve_wins request
SpecResolveWins == InitSafOnly /\ [][NextResolveWins]_vars

NextResolveAds ==
    \/ ResolveAdsCall
    \/ DnsLookupReturn
    \/ DnsLookupTimeout

\* one resolve_ads call
SpecResolveAds == InitSafOnly /\ [][NextResolveAds]_vars

NextSort ==
    \/ CallPrioritizeIpv4List
    \/ CallAddrCompare

\* prioritize_ipv4_list and addr_compare on every input of the model
SpecSort == InitSafOnly /\ [][NextSort]_vars

NextSockPacketRead ==
    \/ SockPacketReadSend
    \/ SockPacketReadGotPacket
    \/ SockPacketReadGotSocket

\* one sock_packet_read request under every order of its two reads
SpecSockPacketRead == InitSafOnly /\ [][NextSockPacketRead]_vars

NextNbTrans ==
    \/ NbtRequestSend
    \/ NbTransGotReader
    \/ NbTransSent
    \/ NbTransSendNext
    \/ NbTransDone
    \/ NbtTick
    \/ NbtEndtime
    \/ SockPacketReadGotPacket
    \/ SockPacketReadGotSocket

\* one NBT request from its send function to its completion
SpecNbTrans == InitSafOnly /\ [][NextNbTrans]_vars

\* one request at a time: an NBT request, a name_queries request or a
\* query_wins_list request
NextRequests ==
    \/ nqs.pc = "idle" /\ wl.pc = "idle" /\ NbtRequestSend
    \/ NbTransGotReader
    \/ NbTransSent
    \/ NbTransSendNext
    \/ NbTransDone
    \/ NbtTick
    \/ NbtEndtime
    \/ SockPacketReadGotPacket
    \/ SockPacketReadGotSocket
    \/ tr.pc = "idle" /\ wl.pc = "idle" /\ NameQueriesSend
    \/ NameQueriesNext
    \/ NameQueriesDone
    \/ tr.pc = "idle" /\ nqs.pc = "idle" /\ QueryWinsListSend
    \/ QueryWinsListDone

\* the requests with timers that fire when they are due: the wakeup and the
\* deadline of an NBT request, the wakeup of name_queries, and the
\* sub-queries of name_queries and query_wins_list, each of which is a
\* name_query under a deadline
LiveRequests ==
    /\ InitSafOnly
    /\ [][NextRequests]_vars
    /\ WF_vars(NbtTick)
    /\ WF_vars(NbTransSendNext)
    /\ WF_vars(NbtEndtime)
    /\ WF_vars(NameQueriesNext)
    /\ WF_vars(NameQueriesDone)
    /\ WF_vars(QueryWinsListDone)

NextWinsDead ==
    \/ WinsRequestSend
    \/ WinsQueryDone
    \/ WinsFlagExpires

\* resolve_wins requests one after the other over one table of dead servers
SpecWinsDead == InitSafOnly /\ [][NextWinsDead]_vars

NextGetDcList ==
    \/ CallGetDcList

\* get_dc_list on every preferred server list of the model
SpecGetDcList == InitSafOnly /\ [][NextGetDcList]_vars

(***************************************************************************)
(* Properties                                                              *)
(***************************************************************************)
\* a call that runs internal_resolve_name, directly or through resolve_name
InResolve == fn \in {"internal_resolve_name", "resolve_name"}

NonZeroLiteral == is_ipaddress(name) /\ ~is_zero_addr(interpret_string_addr(name))
ZeroLiteral == is_ipaddress(name) /\ is_zero_addr(interpret_string_addr(name))

FirstIsNull(order) == Len(order) > 0 /\ order[1] = "NULL"

DefaultOrder == <<"lmhosts", "wins", "host", "bcast">>

\* C1: for a name that is a non-zero IP literal, internal_resolve_name returns
\* NT_STATUS_OK with the one-element list of that address and port PORT_NONE,
\* resolve_name returns true with that address, and neither consults the name
\* cache or dispatches a backend, whatever the resolve order and the cache hold.
C1_LiteralShortCircuit ==
    (InResolve /\ NonZeroLiteral) =>
        /\ pc = "done"
        /\ dispatched = <<>>
        /\ ~cache_consulted
        /\ path = "literal" =>
              /\ status = "NT_STATUS_OK"
              /\ iplist = <<Service(interpret_string_addr(name), PORT_NONE)>>
        /\ fn = "resolve_name" =>
              /\ ret_ok
              /\ return_ss = interpret_string_addr(name)
        /\ fn = "internal_resolve_name" => path = "literal"

\* C1 witness: the literal is returned although the key has a live cache entry
\* and the order names backends
C1_Witness ==
    /\ pc = "done"
    /\ fn = "internal_resolve_name"
    /\ name = Lit5
    /\ orig_order = DefaultOrder
    /\ EntryLive(namecache[CacheKey(name, name_type)], now)
    /\ iplist = <<Service(Host4, PORT_NONE)>>

\* C2 (as claimed): resolve_name on a zero-address literal does not return true.
C2_ZeroLiteralFails ==
    (pc = "done" /\ fn = "resolve_name" /\ ZeroLiteral) => ~ret_ok

\* C3: a non-literal call made while the key has an unexpired entry returns from
\* the cache without dispatching a backend, and when that entry was stored by an
\* earlier successful call it returns the list that call returned; a call made
\* when the key has no unexpired entry does not return from the cache and
\* dispatches the first backend of its order.
C3_CacheHitThenExpiry ==
    (pc = "done" /\ InResolve /\ ~is_ipaddress(name)) =>
        /\ live_at_entry =>
              /\ path = "cache"
              /\ dispatched = <<>>
        /\ (live_at_entry /\ stored_result # <<>>) =>
              /\ status = "NT_STATUS_OK"
              /\ iplist = stored_result
        /\ ~live_at_entry =>
              /\ path # "cache"
              /\ (path # "null"
                  /\ \E k \in 1..Len(resolve_order) : Dispatches(resolve_order[k], name_type))
                 => dispatched # <<>>

\* C3 witness: a call answered from the entry an earlier call stored
C3_Witness ==
    /\ pc = "done"
    /\ fn = "internal_resolve_name"
    /\ orig_order = DefaultOrder
    /\ live_at_entry
    /\ Len(stored_result) = 2
    /\ iplist = stored_result

\* the backends of the tags among the first n of the order that are dispatched
RECURSIVE BackendsOfPrefix(_, _, _)
BackendsOfPrefix(order, n, type) ==
    IF n = 0 THEN <<>>
    ELSE IF BackendOf(order[n]) = "unknown" \/ (ToLower(order[n]) = "wins" /\ type = 29)
         THEN BackendsOfPrefix(order, n - 1, type)
         ELSE Append(BackendsOfPrefix(order, n - 1, type), BackendOf(order[n]))

\* the number of tags of the order the loop has been through
Visited ==
    IF pc = "loop" \/ path = "exhausted" THEN i - 1
    ELSE IF path \in {"backend", "convert"} THEN i
    ELSE 0

C4_InOrder ==
    (InResolve /\ pc \in {"loop", "done"}) =>
        /\ Visited <= Len(resolve_order)
        /\ dispatched = BackendsOfPrefix(resolve_order, Visited, name_type)
        /\ path = "backend" =>
              /\ status = "NT_STATUS_OK"
              /\ dispatched[Len(dispatched)] = BackendOf(resolve_order[i])

\* C4: the backends are dispatched in the order of the effective resolve order
\* (at every moment the dispatched backends are those of the tags gone through,
\* in their order), and after a backend has returned success the call dispatches
\* no further backend.
C4_OrderedStopOnSuccess ==
    /\ []C4_InOrder
    /\ [][(pc = "done" /\ InResolve) => (pc' = "idle" /\ dispatched' = <<>>)]_vars

\* C4 witness: the second backend succeeded and two tags remain untried
C4_Witness ==
    /\ pc = "done"
    /\ path = "backend"
    /\ orig_order = DefaultOrder
    /\ resolve_order = DefaultOrder
    /\ dispatched = <<"lmhosts", "wins">>

\* C5 (as claimed): after a cache miss with an order that does not start with
\* "NULL", an error is returned only when every tag of the effective order has
\* been gone through.
C5_ErrorOnlyAfterAllTried ==
    (pc = "done" /\ InResolve /\ ~is_ipaddress(name) /\ ~live_at_entry
     /\ path # "null" /\ status # "NT_STATUS_OK")
        => Visited = Len(resolve_order)

\* C6: when the first element of the resolve order is "NULL" no backend is
\* dispatched during the call.
C6_NullOrderNoDispatch ==
    (InResolve /\ FirstIsNull(orig_order)) =>
        /\ pc = "done"
        /\ dispatched = <<>>

\* C6 witness: the call ended at the "NULL" check though "host" follows
C6_Witness ==
    /\ pc = "done"
    /\ orig_order = <<"NULL", "host">>
    /\ path = "null"
    /\ name_type = 32

\* C7 (as claimed): a call whose order starts with "NULL" never returns success.
C7_NullOrderNeverSucceeds ==
    (pc = "done" /\ InResolve /\ path # "resolve_name_literal" /\ FirstIsNull(orig_order))
        => status # "NT_STATUS_OK"

\* C7 (amended): a call whose order starts with "NULL" returns
\* NT_STATUS_INVALID_PARAMETER with no address, unless the name is an IP literal
\* or the name cache holds an unexpired entry for the key: these two cases are
\* decided before the order is looked at.
C7_NullOrderFailsAfterLiteralAndCache ==
    (pc = "done" /\ InResolve /\ FirstIsNull(orig_order)) =>
        /\ (~is_ipaddress(name) /\ ~live_at_entry) =>
              /\ status = "NT_STATUS_INVALID_PARAMETER"
              /\ iplist = <<>>
              /\ ~ret_ok
        /\ status = "NT_STATUS_OK" =>
              \/ path = "literal"
              \/ path = "cache" /\ live_at_entry

\* C7 witness: a "NULL" order on a cache miss
C7_Witness ==
    /\ pc = "done"
    /\ fn = "internal_resolve_name"
    /\ orig_order = <<"NULL">>
    /\ ~live_at_entry
    /\ name = Name15
    /\ status = "NT_STATUS_INVALID_PARAMETER"

\* the tags of an order that are no NetBIOS backend, in their order
RECURSIVE WithoutNbtTags(_)
WithoutNbtTags(order) ==
    IF order = <<>> THEN <<>>
    ELSE IF Head(order) \in {"lmhosts", "wins", "bcast", "WINS"}
         THEN WithoutNbtTags(Tail(order))
         ELSE <<Head(order)>> \o WithoutNbtTags(Tail(order))

HasDot(n) == \E k \in DOMAIN n : n[k] = "."

\* C8: a NetBIOS backend (lmhosts, wins, bcast) is dispatched only for a name of
\* at most 15 characters without '.'; for a longer name or one with '.' the loop
\* iterates exactly the other tags of the order, in their order; a name of at
\* most 15 characters without '.' keeps the full order.
C8_NbtFilter ==
    (InResolve /\ (pc = "loop" \/ path \in {"exhausted", "backend", "convert"})) =>
        LET base == IF orig_order = NULL_ORDER \/ orig_order = <<>>
                    THEN <<"host">> ELSE orig_order
        IN  /\ (Len(name) > 15 \/ HasDot(name)) => resolve_order = WithoutNbtTags(base)
            /\ (Len(name) <= 15 /\ ~HasDot(name)) => resolve_order = base
            /\ \A k \in 1..Len(dispatched) :
                  dispatched[k] \in {"lmhosts", "wins", "bcast"}
                     => (Len(name) <= 15 /\ ~HasDot(name))

\* C8 witness: a name of exactly 15 characters went through all four backends
C8_Witness ==
    /\ pc = "done"
    /\ name = Name15
    /\ Len(name) = 15
    /\ dispatched = <<"lmhosts", "wins", "host", "bcast">>

NoZeroNoDuplicate(l) ==
    /\ \A k \in 1..Len(l) : ~is_zero_addr(l[k].ss)
    /\ \A j, k \in 1..Len(l) : (l[j].ss = l[k].ss /\ l[j].port = l[k].port) => j = k

\* C9: a list returned with NT_STATUS_OK by internal_resolve_name is not empty,
\* holds no zero address and no two entries with the same (address, port), and
\* remove_duplicate_addrs2 leaves it as it is; the output of
\* remove_duplicate_addrs2 on any list is left as it is by a second application.
C9_ResultDeduplicated ==
    /\ (pc = "done" /\ InResolve /\ status = "NT_STATUS_OK") =>
          /\ Len(iplist) > 0
          /\ NoZeroNoDuplicate(iplist)
          /\ remove_duplicate_addrs2(iplist) = iplist
    /\ (pc = "done" /\ fn = "remove_duplicate_addrs2") =>
          /\ NoZeroNoDuplicate(dd_out)
          /\ remove_duplicate_addrs2(dd_out) = dd_out

\* C9 witness: the host backend returned the same address twice
C9_Witness ==
    /\ pc = "done"
    /\ path = "backend"
    /\ dispatched = <<"host">>
    /\ icount = 2
    /\ Len(iplist) = 1

\* the domain of the last SAF operation holds an unexpired saf_store that no
\* saf_delete has followed
StoredAtFetch ==
    /\ saf_op.op = "saf_fetch"
    /\ saf_op.domain \notin {None, ""}
    /\ EntryLive(saf_last[ToUpper(saf_op.domain)], saf_op.at)

JoinAtFetch == gencache_get_ok(gencache, <<"SAFJOIN/DOMAIN", ToUpper(saf_op.domain)>>, saf_op.at)

\* C10 (as claimed): while the last saf_store(d, s) is unexpired and not deleted,
\* saf_fetch(d) returns s.
C10_FetchReturnsStored ==
    StoredAtFetch => saf_ret.server = saf_last[ToUpper(saf_op.domain)].value

\* C10 (amended): while the last saf_store(d, s) is unexpired and not deleted,
\* saf_fetch(d) returns s provided no unexpired SAFJOIN entry exists for d; when
\* one exists saf_fetch(d) returns the SAFJOIN value.
C10_FetchReturnsStoredUnlessJoin ==
    StoredAtFetch =>
        /\ saf_ret.ok
        /\ ~JoinAtFetch => saf_ret.server = saf_last[ToUpper(saf_op.domain)].value
        /\ JoinAtFetch =>
              saf_ret.server = gencache[<<"SAFJOIN/DOMAIN", ToUpper(saf_op.domain)>>].value

\* C10 witness: a saf_fetch("DOM") made after the clock has advanced returns the
\* server of the last saf_store for that key, still unexpired, with no SAFJOIN
\* entry in the way
C10_Witness ==
    /\ saf_op.op = "saf_fetch"
    /\ saf_op.domain = "DOM"
    /\ saf_op.at > 0
    /\ StoredAtFetch
    /\ ~JoinAtFetch
    /\ saf_ret.server = "dc2"

\* the entries the last SAF operation's domain had when the operation ran
SafAtOp == gencache_get_ok(gencache, <<"SAF/DOMAIN", ToUpper(saf_op.domain)>>, saf_op.at)

FetchedDomain == saf_op.op = "saf_fetch" /\ saf_op.domain \notin {None, ""}

\* C11: whenever an unexpired SAFJOIN entry exists for d, saf_fetch(d) returns
\* the SAFJOIN value whatever the SAF entry holds; it returns the SAF value only
\* when no unexpired SAFJOIN entry exists, and no server when neither exists.
C11_JoinValuePreferred ==
    FetchedDomain =>
        LET d == ToUpper(saf_op.domain)
        IN  /\ JoinAtFetch =>
                  saf_ret = SafRet(TRUE, gencache[<<"SAFJOIN/DOMAIN", d>>].value)
            /\ (~JoinAtFetch /\ SafAtOp) =>
                  saf_ret = SafRet(TRUE, gencache[<<"SAF/DOMAIN", d>>].value)
            /\ (~JoinAtFetch /\ ~SafAtOp) => saf_ret = SafRet(FALSE, None)

\* C11 witness: both entries are unexpired with different servers and the fetch
\* returned the SAFJOIN one
C11_Witness ==
    /\ FetchedDomain
    /\ JoinAtFetch
    /\ SafAtOp
    /\ gencache[<<"SAF/DOMAIN", "DOM">>].value = "dc1"
    /\ gencache[<<"SAFJOIN/DOMAIN", "DOM">>].value = "dc2"
    /\ saf_op.domain = "dom"
    /\ saf_ret.server = "dc2"

\* C12: after saf_delete(d) neither the SAF nor the SAFJOIN key of d holds an
\* entry, and every saf_fetch(d) returns no server, until the next successful
\* saf_store(d, .) or saf_join_store(d, .).
C12_DeleteClearsBoth ==
    /\ \A d \in DOMAIN saf_deleted :
          saf_deleted[d] # "no" =>
          /\ gencache[<<"SAF/DOMAIN", d>>] = NoValue
          /\ gencache[<<"SAFJOIN/DOMAIN", d>>] = NoValue
    /\ (saf_op.op = "saf_fetch" /\ saf_op.domain # None
        /\ saf_deleted[ToUpper(saf_op.domain)] # "no") => saf_ret = SafRet(FALSE, None)
    /\ (saf_op.op = "saf_delete" /\ saf_op.domain # None) =>
          saf_deleted[ToUpper(saf_op.domain)] # "no"

\* C12 witness: a fetch found nothing for a domain that had both entries
\* unexpired when it was deleted
C12_Witness ==
    /\ saf_op.op = "saf_fetch"
    /\ saf_op.domain = "dom"
    /\ saf_deleted["DOM"] = "both"
    /\ saf_ret = SafRet(FALSE, None)

\* the request has been sent and has left the pending state
NqEnded == nq.pc \in {"completed", "received"} /\ nq.by # "send"

\* C13: a broadcast query for "*" is never completed by a response: the
\* validator accepts no packet for it, and it ends by its deadline only.
C13_StarQueryEndsByDeadline ==
    (nq.bcast /\ nq.name = Star) =>
        /\ ~nq.last_ok
        /\ nq.by # "response"
        /\ NqEnded => (nq.by = "timeout" /\ nq.req = "NT_STATUS_IO_TIMEOUT")

\* C13 witness: the "*" query has seen positive responses with unique names,
\* collected two addresses, and ended by its deadline
C13_Witness ==
    /\ nq.bcast
    /\ nq.name = Star
    /\ nq.pc = "received"
    /\ nq.by = "timeout"
    /\ nq.nresp >= 2
    /\ PositiveResponse(nq.last)
    /\ nq.last_unique
    /\ Len(nq.addrs) = 2

\* C14 (as claimed): a broadcast query for a name other than "*" is completed
\* by any response that holds a unique address.
C14_AnyUniqueResponseEnds ==
    (nq.bcast /\ nq.name = Name15 /\ nq.last_unique) => nq.by = "response"

\* C14 (amended): a broadcast query for a name other than "*" is completed at
\* once by every positive response (opcode 0, B flag clear, rcode 0, ancount
\* not 0) whose answer holds a unique address; a packet that fails this header
\* check is discarded whatever it holds, and a positive response with group
\* addresses only leaves the query pending.
C14_UniquePositiveResponseEnds ==
    (nq.bcast /\ nq.name = Name15 /\ nq.nresp > 0) =>
        /\ (PositiveResponse(nq.last) /\ nq.last_unique) =>
              /\ nq.last_ok
              /\ nq.by = "response"
              /\ nq.pc \in {"completed", "received"}
              /\ nq.req = "NT_STATUS_OK"
        /\ (~PositiveResponse(nq.last) \/ ~nq.last_unique) =>
              /\ ~nq.last_ok
              /\ nq.by # "response"

\* C14 witness: the second response held a unique address and ended the query
\* before its deadline
C14_Witness ==
    /\ nq.bcast
    /\ nq.name = Name15
    /\ nq.nresp = 2
    /\ nq.last_unique
    /\ nq.by = "response"
    /\ nq.pc = "received"
    /\ nq.ret.status = "NT_STATUS_OK"

\* a unicast query that has been sent
Unicast == ~nq.bcast /\ nq.by # "send" /\ nq.pc # "idle"

\* C15 (as claimed): a unicast query is completed with NT_STATUS_NOT_FOUND by
\* any response with a non-zero rcode.
C15_AnyNegativeResponseIsNotFound ==
    (Unicast /\ nq.nresp > 0 /\ nq.last.rcode # 0) =>
        /\ nq.by = "response"
        /\ nq.req = "NT_STATUS_NOT_FOUND"

\* C15 (amended): a unicast query is completed with NT_STATUS_NOT_FOUND by a
\* response with a non-zero rcode and opcode 0, and name_query_recv returns
\* NT_STATUS_NOT_FOUND for it; a packet with a non-zero rcode and another
\* opcode is discarded and the query stays pending.
C15_NegativeQueryResponseIsNotFound ==
    (Unicast /\ nq.nresp > 0 /\ nq.last.rcode # 0) =>
        /\ nq.last.opcode = 0 =>
              /\ nq.last_ok
              /\ nq.by = "response"
              /\ nq.req = "NT_STATUS_NOT_FOUND"
              /\ nq.pc = "received" => nq.ret.status = "NT_STATUS_NOT_FOUND"
        /\ nq.last.opcode # 0 =>
              /\ ~nq.last_ok
              /\ nq.by # "response"

\* C15 witness: the negative response came after a discarded packet
C15_Witness ==
    /\ Unicast
    /\ nq.nresp = 2
    /\ nq.last.rcode # 0
    /\ nq.last.opcode = 0
    /\ nq.pc = "received"
    /\ nq.ret.status = "NT_STATUS_NOT_FOUND"

\* a broadcast query whose deadline has fired and whose result is collected
BcastTimedOut == nq.bcast /\ nq.by = "timeout" /\ nq.pc = "received"

\* C16 (as claimed): a broadcast query ended by its deadline returns
\* NT_STATUS_OK, whatever number of responses came before.
C16_BcastTimeoutIsSuccess ==
    BcastTimedOut => nq.ret.status = "NT_STATUS_OK"

\* the elements of a list
Range(l) == {l[k] : k \in 1..Len(l)}

\* C16 (amended): a broadcast query ended by its deadline never returns
\* NT_STATUS_IO_TIMEOUT: it returns NT_STATUS_OK with the addresses collected
\* when there is at least one, and NT_STATUS_NOT_FOUND when there is none.
C16_BcastTimeoutIsOkOrNotFound ==
    BcastTimedOut =>
        /\ nq.ret.status # "NT_STATUS_IO_TIMEOUT"
        /\ Len(nq.addrs) > 0 =>
              /\ nq.ret.status = "NT_STATUS_OK"
              /\ Range(nq.ret.addrs) = Range(nq.addrs)
              /\ Len(nq.ret.addrs) = Len(nq.addrs)
        /\ Len(nq.addrs) = 0 =>
              /\ nq.ret.status = "NT_STATUS_NOT_FOUND"
              /\ nq.ret.addrs = <<>>

\* C16 witness: the deadline fired after two responses with group addresses
C16_Witness ==
    /\ BcastTimedOut
    /\ nq.name = Name15
    /\ nq.nresp = 2
    /\ nq.ret.status = "NT_STATUS_OK"
    /\ Len(nq.ret.addrs) = 2

\* the non-zero addresses of l, each at the place of its first occurrence
RECURSIVE FirstSeen(_)
FirstSeen(l) ==
    IF l = <<>> THEN <<>>
    ELSE LET front == FirstSeen(SubSeq(l, 1, Len(l) - 1))
             x == l[Len(l)]
         IN  IF x = Zero4 \/ x \in Range(front) THEN front ELSE Append(front, x)

Succeeded == {k \in 1..Len(nqs.delivered) : nqs.delivered[k].status = "NT_STATUS_OK"}

\* C18: name_queries starts its sub-queries in destination order, sub-query k
\* (counted from 0) at wakeup k, one per wakeup; once a sub-query has
\* succeeded no sub-query is started, no wakeup is armed, and no sub-query
\* pending at that time delivers a result.
C18_StaggeredStartsEndAtSuccess ==
    /\ \A k \in 1..Len(nqs.started) :
          /\ nqs.started[k].idx = k - 1
          /\ nqs.started[k].waits = k - 1
          /\ ~nqs.started[k].after
    /\ nqs.num_sent = Len(nqs.started)
    /\ \A k \in 1..Len(nqs.delivered) : ~nqs.delivered[k].after
    /\ Succeeded # {} =>
          /\ ~nqs.wakeup
          /\ PendingSubreqs(nqs) = {}

\* C18 witness: the second of three sub-queries succeeded while the first was
\* pending and the third was not yet started
C18_Witness ==
    /\ nqs.num_addrs = 3
    /\ nqs.num_sent = 2
    /\ nqs.waits = 1
    /\ nqs.req = "NT_STATUS_OK"
    /\ nqs.received_index = 1
    /\ nqs.cancelled = {0}
    /\ nqs.subreqs = <<"freed", "done">>

\* the request has failed
NqsFailed == nqs.req \notin {"none", "IN_PROGRESS", "NT_STATUS_OK"}

\* C19: name_queries succeeds exactly when a sub-query succeeds, at that very
\* step; it fails only when every destination has been queried and every
\* sub-query has failed, with the error of the sub-query that completed last;
\* while a destination is pending or not yet started a failure leaves the
\* request in progress.
C19_FirstSuccessOrLastError ==
    nqs.pc # "idle" =>
        /\ Succeeded # {} =>
              /\ nqs.req = "NT_STATUS_OK"
              /\ Succeeded = {Len(nqs.delivered)}
              /\ nqs.received_index = nqs.delivered[Len(nqs.delivered)].idx
        /\ nqs.req = "NT_STATUS_OK" => Succeeded # {}
        /\ NqsFailed =>
              /\ nqs.num_sent >= nqs.num_addrs
              /\ \A d \in 0..(nqs.num_addrs - 1) :
                    \E k \in 1..Len(nqs.delivered) : nqs.delivered[k].idx = d
              /\ Succeeded = {}
              /\ PendingSubreqs(nqs) = {}
              /\ nqs.cancelled = {}
              /\ nqs.req = nqs.delivered[Len(nqs.delivered)].status
        /\ (Succeeded = {} /\ nqs.num_received < nqs.num_addrs) =>
              nqs.req = "IN_PROGRESS"

\* C19 witness: three sub-queries failed, the first started completed last, and
\* the request failed with its error
C19_Witness ==
    /\ nqs.num_addrs = 3
    /\ NqsFailed
    /\ Len(nqs.delivered) = 3
    /\ nqs.delivered[1] = [idx |-> 1, status |-> "NT_STATUS_NOT_FOUND", after |-> FALSE]
    /\ nqs.delivered[3] = [idx |-> 0, status |-> "NT_STATUS_IO_TIMEOUT", after |-> FALSE]
    /\ nqs.req = "NT_STATUS_IO_TIMEOUT"

\* the queries of the request that ended with a timeout
TimedOut == {k \in 1..Len(wl.outcomes) : wl.outcomes[k] = "NT_STATUS_IO_TIMEOUT"}

\* C20: query_wins_list marks a server dead exactly when the query sent to it
\* ended with NT_STATUS_IO_TIMEOUT: no answer, no other error and no server
\* left unqueried adds to the dead servers.
C20_DeadIffTimeout ==
    /\ Len(wl.marked) = Len(wl.outcomes)
    /\ \A k \in 1..Len(wl.outcomes) :
          wl.marked[k] <=> (wl.outcomes[k] = "NT_STATUS_IO_TIMEOUT")
    /\ wl.dead = {wl.servers[k] : k \in TimedOut}

\* C20 witness: of three distinct servers the first timed out, the second
\* answered negatively, the third was never queried
C20_Witness ==
    /\ wl.pc = "done"
    /\ Len(wl.servers) = 3
    /\ Cardinality({wl.servers[k] : k \in 1..3}) = 3
    /\ wl.outcomes = <<"NT_STATUS_IO_TIMEOUT", "NT_STATUS_NOT_FOUND">>
    /\ wl.dead = {wl.servers[1]}
    /\ wl.req = "NT_STATUS_NOT_FOUND"

\* C21: a query of query_wins_list that ends with NT_STATUS_NOT_FOUND, the
\* status of a negative response, is the last one of the tag: the request
\* fails with NT_STATUS_NOT_FOUND at that step and no later server is queried.
C21_NegativeAnswerFailsTag ==
    \A k \in 1..Len(wl.outcomes) :
        wl.outcomes[k] = "NT_STATUS_NOT_FOUND" =>
            /\ k = Len(wl.outcomes)
            /\ wl.num_sent = k
            /\ wl.pc = "done"
            /\ wl.req = "NT_STATUS_NOT_FOUND"

\* C21 witness: the first of two servers answered negatively and the second
\* was not queried
C21_Witness ==
    /\ Len(wl.servers) = 2
    /\ wl.servers[1] # wl.servers[2]
    /\ wl.outcomes = <<"NT_STATUS_NOT_FOUND">>
    /\ wl.num_sent = 1
    /\ wl.pc = "done"
    /\ wl.req = "NT_STATUS_NOT_FOUND"
    /\ wl.dead = {}

\* the positions in the delivery history of the chains that succeeded
ChainsSucceeded ==
    {k \in 1..Len(rw.delivered) : rw.delivered[k].status = "NT_STATUS_OK"}

\* the chains still in flight
ChainsPending == {c \in 1..Len(rw.chains) : rw.chains[c] = "pending"}

\* C22: resolve_wins launches its chains together; it succeeds at the step a
\* chain succeeds, whatever the chains before reported, and it fails only when
\* every launched chain has failed, with the error of the chain that failed
\* last, in every order of completion.
C22_FirstTagSuccessOrLastError ==
    rw.num_sent > 0 =>
        /\ Len(rw.chains) = rw.num_sent
        /\ ChainsSucceeded # {} =>
              /\ rw.req = "NT_STATUS_OK"
              /\ ChainsSucceeded = {Len(rw.delivered)}
        /\ rw.req = "NT_STATUS_OK" => ChainsSucceeded # {}
        /\ (rw.pc = "done" /\ rw.req # "NT_STATUS_OK") =>
              /\ ChainsPending = {}
              /\ Len(rw.delivered) = rw.num_sent
              /\ rw.req = rw.delivered[Len(rw.delivered)].status
        /\ (ChainsSucceeded = {} /\ ChainsPending # {}) =>
              /\ rw.pc = "pending"
              /\ rw.req = "IN_PROGRESS"

\* C22 witness: of three chains the third failed first, then another failed,
\* then the remaining one succeeded
C22_Witness ==
    /\ rw.num_sent = 3
    /\ Len(rw.delivered) = 3
    /\ rw.delivered[1] = [chain |-> 3, status |-> "NT_STATUS_NOT_FOUND"]
    /\ rw.delivered[2].status = "NT_STATUS_NOT_SUPPORTED"
    /\ rw.delivered[3].status = "NT_STATUS_OK"
    /\ rw.req = "NT_STATUS_OK"

\* the concatenation of a list of lists
RECURSIVE Flatten(_)
Flatten(ll) == IF ll = <<>> THEN <<>> ELSE Head(ll) \o Flatten(Tail(ll))

\* the non-zero addresses embedded in the SRV reply, in record order
EmbeddedNonZero ==
    SelectSeq(Flatten([k \in 1..Len(ads.dcs) |-> ads.dcs[k].ips]),
              LAMBDA ss : ss \notin {Zero4, Zero6})

\* the host names of the SRV records without embedded addresses, in record order
NamesToLookUp ==
    Flatten([k \in 1..Len(ads.dcs) |->
                IF ads.dcs[k].ips = <<>> /\ ads.dcs[k].hostname # NoName
                THEN <<ads.dcs[k].hostname>> ELSE <<>>])

\* the q-th lookup returned in time with addresses to use
GoodLookup(q) ==
    /\ ads.queries[q].returned
    /\ ads.queries[q].reply.status = "NT_STATUS_OK"
    /\ ads.queries[q].reply.rcode = 0

\* what the q-th lookup delivered
Delivered(q) == IF GoodLookup(q) THEN ads.queries[q].reply.addrs ELSE <<>>

\* the addresses delivered by the lookups, in query-issue order
AllDelivered == Flatten([q \in 1..Len(ads.queries) |-> Delivered(q)])

\* where the slots of the q-th lookup start in the looked-up part
SlotBase(q) == Len(Flatten([p \in 1..(q - 1) |-> Delivered(p)]))

\* resolve_ads returned a list built from a SRV reply
AdsDone == ads.pc = "done" /\ ads.dcs # <<>>

C24_EveryDeliveredAddressReturned ==
    AdsDone =>
        /\ \A q \in 1..Len(ads.queries) : Range(Delivered(q)) \subseteq Range(ads.dns_addrs)
        /\ Len(ads.ret) = Len(EmbeddedNonZero) + Len(AllDelivered)
        /\ Range(ads.dns_addrs) \subseteq Range(AllDelivered)

Ipv4Of(l) == SelectSeq(l, LAMBDA e : e.ss.family = "AF_INET")
OthersOf(l) == SelectSeq(l, LAMBDA e : e.ss.family # "AF_INET")

\* C26: prioritize_ipv4_list is a stable partition: the output has the
\* entries of the input, every IPv4 entry before every other entry, and both
\* groups in their input order.
C26_StablePartition ==
    srt.op = "prioritize_ipv4_list" =>
        /\ Len(srt.out) = Len(srt.list)
        /\ \A e \in Range(srt.list) \cup Range(srt.out) :
              Cardinality({k \in 1..Len(srt.out) : srt.out[k] = e})
                  = Cardinality({k \in 1..Len(srt.list) : srt.list[k] = e})
        /\ \A j, k \in 1..Len(srt.out) :
              (j < k /\ srt.out[k].ss.family = "AF_INET") =>
                  srt.out[j].ss.family = "AF_INET"
        /\ Ipv4Of(srt.out) = Ipv4Of(srt.list)
        /\ OthersOf(srt.out) = OthersOf(srt.list)

\* C26 witness: two IPv6 entries around an IPv4 entry
C26_Witness ==
    /\ srt.op = "prioritize_ipv4_list"
    /\ srt.list = <<Service(Host6, 389), Service(Host4, PORT_NONE), Service(Zero6, 389)>>
    /\ srt.out = <<Service(Host4, PORT_NONE), Service(Host6, 389), Service(Zero6, 389)>>

\* the bits of an address, most significant first
BitsOf(ss) ==
    [k \in 1..(8 * Len(Octets(ss))) |->
        (Octets(ss)[((k - 1) \div 8) + 1] \div 2^(7 - ((k - 1) % 8))) % 2]

\* the number of leading bits two addresses of one family share
CommonPrefix(x, y) ==
    CHOOSE n \in 0..Len(BitsOf(x)) :
        /\ \A k \in 1..n : BitsOf(x)[k] = BitsOf(y)[k]
        /\ n = Len(BitsOf(x)) \/ BitsOf(x)[n + 1] # BitsOf(y)[n + 1]

\* the larger of the numbers of a set, 0 for none
Largest(S) == IF S = {} THEN 0 ELSE CHOOSE m \in S : \A n \in S : n <= m

\* the score of an address: the longest prefix shared with the broadcast
\* address of an interface of its family, plus 32 or 128 when it is local
Score(ss, ifs) ==
    Largest({CommonPrefix(ss, ifs[k].bcast) :
                k \in {j \in 1..Len(ifs) : ifs[j].bcast.family = ss.family}})
    + (IF \E k \in 1..Len(ifs) :
             /\ ifs[k].ip.family = ss.family
             /\ CommonPrefix(ss, ifs[k].ip) >= ifs[k].masklen
       THEN (IF ss.family = "AF_INET" THEN 32 ELSE 128)
       ELSE 0)

\* the sign of a number
Sign(n) == IF n < 0 THEN -1 ELSE IF n > 0 THEN 1 ELSE 0

FailedPaths == {spr.failures[k][1] : k \in 1..Len(spr.failures)}

\* C30: with a relay reader, a request of sock_packet_read on which only one
\* of the socket read and the relay read has failed is not completed by that
\* failure; a failed request has seen both fail, in either order.
C30_FailsOnlyAfterBothFailed ==
    spr.reader =>
        /\ (spr.pc # "idle" /\ Cardinality(FailedPaths) = 1) => spr.pc # "failed"
        /\ spr.pc = "failed" => FailedPaths = {"socket", "reader"}
        /\ (spr.pc = "pending" /\ FailedPaths = {"reader"}) =>
              (spr.socket_req /\ ~spr.reader_req)
        /\ (spr.pc = "pending" /\ FailedPaths = {"socket"}) =>
              (spr.reader_req /\ ~spr.socket_req)

\* C30 witness: the relay read failed while the socket read was outstanding,
\* and the request failed when the socket read failed as well
C30_Witness ==
    /\ spr.reader
    /\ spr.pc = "failed"
    /\ Len(spr.failures) = 2
    /\ spr.failures[1][1] = "reader"
    /\ spr.failures[2][1] = "socket"

\* C28: with timers that fire, a node_status_query or name_query under way
\* completes, and so do a name_queries request and a query_wins_list request,
\* whether or not a response arrives and whether or not a send completes.
C28_RequestsComplete ==
    /\ NbtActive(tr) ~> tr.pc = "done"
    /\ nqs.pc = "running" ~> nqs.pc = "finished"
    /\ wl.pc = "pending" ~> wl.pc = "done"

\* C28 witness: the deadline ended a request that was sent again and again
\* without an answer
C28_Witness ==
    /\ tr.pc = "done"
    /\ tr.req = "NT_STATUS_IO_TIMEOUT"
    /\ tr.sends = NbtDeadline + 1
    /\ tr.t = tr.endtime

\* C29: with disable netbios set no entry point opens a socket or sends a
\* datagram, and each fails at once.
C29_DisabledNetbiosOpensNoSocket ==
    (tr.pc # "idle" /\ tr.disable_netbios) =>
        /\ ~tr.socket
        /\ tr.sends = 0
        /\ tr.pc = "done"
        /\ tr.req # "NT_STATUS_OK"

\* both reads of the race have failed
BothFailed == spr.reader /\ spr.pc = "failed" /\ Len(spr.failures) = 2

\* C31 as stated: when both reads of the race have failed the request reports
\* the error of the socket read, whichever failed first.
C31_SocketErrorReported ==
    BothFailed =>
        \E k \in 1..2 : spr.failures[k] = <<"socket", spr.status>>

\* C31: when both reads of the race have failed the request reports the error
\* of the read that failed last: the socket's when the relay read failed
\* first, the relay's when the socket read failed first.
C31_LastErrorReported ==
    BothFailed =>
        /\ spr.status = spr.failures[2][2]
        /\ spr.failures[1][1] # spr.failures[2][1]
        /\ spr.failures[2][1] = "socket" => spr.status \in SocketErrors
        /\ spr.failures[2][1] = "reader" => spr.status \in ReaderErrors

\* C31 witness: the socket read failed first and the error of the relay read
\* is reported
C31_Witness ==
    /\ BothFailed
    /\ spr.failures[1][1] = "socket"
    /\ spr.failures[2][1] = "reader"
    /\ spr.status = spr.failures[2][2]
    /\ spr.status \in ReaderErrors

\* the packet a race ends successfully with has the transaction id asked
\* for, unless that is -1, and is one the validator accepts; a read is armed
\* again only on a pending request
MatchingValidPacket ==
    /\ spr.pc = "done" =>
          /\ spr.status = "NT_STATUS_OK"
          /\ spr.via \in {"socket", "reader"}
          /\ spr.trn_id # -1 => spr.packet.trn_id = spr.trn_id
          /\ spr.packet.valid
          /\ spr.via = "socket" => (spr.packet.inet4 /\ spr.packet.parses)
    /\ spr.rearmed = "socket" => (spr.pc = "pending" /\ spr.socket_req)
    /\ spr.rearmed = "reader" => (spr.pc = "pending" /\ spr.reader_req)

\* a datagram or relayed packet of another transaction id, or one the
\* validator refuses, leaves the request pending and its read armed
RejectedPacketRearms ==
    [][\A d \in Datagrams :
          (/\ spr.pc = "pending"
           /\ \/ (spr.socket_req /\ spr' = sock_packet_read_got_socket(spr, "NT_STATUS_OK", d))
              \/ (spr.reader_req /\ d \in nb_packet_read(spr.trn_id)
                    /\ spr' = sock_packet_read_got_packet(spr, "NT_STATUS_OK", d))
           /\ \/ ~d.valid
              \/ (spr.trn_id # -1 /\ d.trn_id # spr.trn_id))
          => (spr'.pc = "pending" /\ spr'.rearmed # "none")]_vars

\* C32: the packet a race ends successfully with has the transaction id asked
\* for, unless that is -1, and is one the validator accepts, on the socket
\* and on the relay path; a packet of another transaction id or one the
\* validator refuses never ends the request, and the read of its path is
\* armed again.
C32_OnlyMatchingValidPackets == []MatchingValidPacket /\ RejectedPacketRearms

\* C32 witness: a race for transaction 7 ended with a relayed packet after a
\* read was armed again
C32_Witness ==
    /\ spr.pc = "done"
    /\ spr.via = "reader"
    /\ spr.trn_id = 7
    /\ spr.packet.trn_id = 7
    /\ spr.packet.valid

\* the sends and the wakeups of nb_trans that are outstanding
SendsOutstanding == tr.sends - tr.returned
WakeupsOutstanding == tr.armed - tr.fired

\* while the race is on, one send or one wakeup is outstanding and never
\* both; every wakeup was armed by a send that came back and every send after
\* the first was made by a wakeup that fired
SendWakeupAlternate ==
    tr.pc = "race" =>
        /\ SendsOutstanding \in {0, 1}
        /\ WakeupsOutstanding \in {0, 1}
        /\ SendsOutstanding + WakeupsOutstanding = 1
        /\ tr.sendto <=> SendsOutstanding = 1
        /\ tr.wakeup # -1 <=> WakeupsOutstanding = 1
        /\ tr.armed = tr.returned
        /\ tr.sends = tr.fired + 1
        /\ tr.wakeup # -1 => tr.wakeup \in {tr.t, tr.t + 1}
        /\ tr.sends <= tr.t + 1

\* a step that leaves the race on is a send that came back and armed the
\* wakeup due a second later, a due wakeup that fired and made one send, or a
\* step that touches neither; the race goes off only by its end, a failed
\* send or the deadline
SendWakeupSteps ==
    [][tr.pc = "race" =>
          \/ /\ tr'.pc = "race"
             /\ \/ /\ tr.sendto /\ ~tr'.sendto
                   /\ tr'.wakeup = tr.t + 1
                   /\ tr'.armed = tr.armed + 1 /\ tr'.sends = tr.sends
                \/ /\ tr.wakeup # -1 /\ tr.wakeup <= tr.t /\ tr'.wakeup = -1
                   /\ tr'.sendto
                   /\ tr'.sends = tr.sends + 1 /\ tr'.armed = tr.armed
                \/ /\ tr'.sendto = tr.sendto /\ tr'.wakeup = tr.wakeup
                   /\ tr'.sends = tr.sends /\ tr'.armed = tr.armed
          \/ /\ tr'.pc = "done"
             /\ \/ spr.pc \in {"done", "failed"} /\ tr'.req = spr.status
                \/ tr.sendto /\ tr'.req = "NT_STATUS_NETWORK_UNREACHABLE"
                \/ tr.endtime <= tr.t /\ tr'.req = "NT_STATUS_IO_TIMEOUT"]_vars

\* C33: while an nb_trans transaction is active its sender alternates send,
\* wakeup of one second, send: each send that comes back arms one wakeup,
\* each wakeup that fires makes one send, a send and a wakeup or two of
\* either are never outstanding together, and nothing but the end of the
\* race, a failed send or the deadline of the caller stops the cycle.
C33_SendWakeupCycle == []SendWakeupAlternate /\ SendWakeupSteps

\* C33 witness: the request has been sent once a second up to the deadline
\* and the last send is outstanding
C33_Witness ==
    /\ tr.pc = "race"
    /\ tr.sendto
    /\ tr.sends = NbtDeadline + 1
    /\ tr.fired = NbtDeadline
    /\ tr.t = NbtDeadline

\* the queries of the tag that have been sent and have not ended
WlInFlight == wl.num_sent - Len(wl.outcomes)

\* one query at most is in flight, the servers are asked in list order, each
\* but the first after the one before it timed out, and no more queries are
\* sent than there are servers
WlSequential ==
    /\ wl.num_sent <= Len(wl.servers)
    /\ WlInFlight \in {0, 1}
    /\ wl.pc = "pending" <=> WlInFlight = 1
    /\ \A k \in 1..(wl.num_sent - 1) : wl.outcomes[k] = "NT_STATUS_IO_TIMEOUT"
    /\ Len(wl.marked) = Len(wl.outcomes)

\* the query to the last server of the tag timed out
LastServerTimedOut ==
    /\ wl.servers # <<>>
    /\ Len(wl.outcomes) = Len(wl.servers)
    /\ wl.outcomes[Len(wl.outcomes)] = "NT_STATUS_IO_TIMEOUT"

\* C34 as stated: one query in flight at most, list order, the next server
\* only after a timeout, never more queries than servers, and the tag fails
\* with NT_STATUS_NOT_FOUND exactly when the last server timed out (a tag
\* without servers counted as exhausted).
C34_NotFoundOnlyByExhaustion ==
    /\ WlSequential
    /\ (wl.pc = "done" /\ wl.req = "NT_STATUS_NOT_FOUND")
          <=> (LastServerTimedOut \/ (wl.pc = "done" /\ wl.servers = <<>>))

\* C34: one query in flight at most, list order, the next server only after a
\* timeout, never more queries than servers; the tag fails with
\* NT_STATUS_NOT_FOUND when the last server timed out, and otherwise only
\* when the tag has no server or the server asked last answered
\* NT_STATUS_NOT_FOUND itself.
C34_SequentialUntilExhausted ==
    /\ WlSequential
    /\ LastServerTimedOut => (wl.pc = "done" /\ wl.req = "NT_STATUS_NOT_FOUND")
    /\ (wl.pc = "done" /\ wl.req = "NT_STATUS_NOT_FOUND") =>
          \/ LastServerTimedOut
          \/ wl.servers = <<>> /\ wl.num_sent = 0
          \/ /\ wl.outcomes # <<>>
             /\ wl.outcomes[Len(wl.outcomes)] = "NT_STATUS_NOT_FOUND"
    /\ wl.pc = "done" /\ wl.outcomes # <<>> /\ ~LastServerTimedOut =>
          wl.req = wl.outcomes[Len(wl.outcomes)]

\* C34 witness: the three servers of a tag timed out one after the other
C34_Witness ==
    /\ wl.pc = "done"
    /\ wl.req = "NT_STATUS_NOT_FOUND"
    /\ wl.num_sent = 3
    /\ wl.outcomes = <<"NT_STATUS_IO_TIMEOUT", "NT_STATUS_IO_TIMEOUT", "NT_STATUS_IO_TIMEOUT">>

\* the servers of the configured tags
TagServersOf(tags) == UNION {Range(tags[k]) : k \in 1..Len(tags)}

\* C35: a WINS server flagged dead for the source address of a resolve_wins
\* request when it starts gets no query of that request; a server that timed
\* out is flagged under that same source address, so that a later request
\* leaves it out while the flag lasts; and with every server of every tag
\* dead the request fails with NT_STATUS_NOT_FOUND and sends nothing.
C35_DeadServersNotQueried ==
    /\ wq.queried \cap wq.start_dead = {}
    /\ \A e \in wq.marks : e[2] = wq.cfg /\ e[1] \in wq.queried
    /\ wq.marks \subseteq wq.table \/ wq.pc = "done"
    /\ \A k \in 1..Len(wq.chains) :
          \A j \in 1..Len(wq.chains[k].outcomes) :
              wq.chains[k].outcomes[j] = "NT_STATUS_IO_TIMEOUT" =>
                  <<wq.chains[k].servers[j], wq.cfg>> \in wq.marks
    /\ (/\ wq.pc # "idle"
        /\ wq.tags # <<>>
        /\ wq.cfg.family = "AF_INET"
        /\ TagServersOf(wq.tags) \subseteq wq.start_dead) =>
          (wq.pc = "done" /\ wq.rw.req = "NT_STATUS_NOT_FOUND" /\ wq.queried = {})

\* C35 witness: the second request leaves out the server that timed out in
\* the first and asks the other server of the tag
C35_Witness ==
    /\ wq.requests = 2
    /\ wq.tags = <<  <<V4("10.0.0.7"), V4("10.0.0.8")>>  >>
    /\ wq.start_dead = {V4("10.0.0.7")}
    /\ wq.queried = {V4("10.0.0.8")}

\* C36: when the backend that succeeds in internal_resolve_name is kdc the
\* result is not stored: the step that ends the call leaves the name cache as
\* it was, and the name cache changes only in the step of a call that another
\* backend ends with success.
C36_KdcResultNotCached ==
    [][/\ (/\ pc = "loop"
           /\ pc' = "done"
           /\ path' = "backend"
           /\ BackendOf(resolve_order[i]) = "kdc") => namecache' = namecache
       /\ namecache' # namecache =>
             /\ pc = "loop"
             /\ path' = "backend"
             /\ BackendOf(resolve_order[i]) # "kdc"]_vars

\* C36 witness: a call for a name of type 0x20 ended with the addresses of the
\* kdc backend and the name cache has no live entry for the name
C36_Witness ==
    /\ pc = "done"
    /\ fn = "internal_resolve_name"
    /\ path = "backend"
    /\ status = "NT_STATUS_OK"
    /\ dispatched # <<>>
    /\ dispatched[Len(dispatched)] = "kdc"
    /\ name_type = 32
    /\ cur_type = KDC_NAME_TYPE
    /\ iplist # <<>>
    /\ ~namecache_fetch_ok(namecache, name, name_type, now)
    /\ ~namecache_fetch_ok(namecache, name, KDC_NAME_TYPE, now)

\* no two entries of the list have the same address and port
NoDuplicates(l) == \A j, k \in 1..Len(l) : l[j] = l[k] => j = k

\* no IPv4 entry follows an entry that is not IPv4
Ipv4First(l) ==
    \A j, k \in 1..Len(l) :
        (j < k /\ l[k].ss.family = "AF_INET") => l[j].ss.family = "AF_INET"

\* C37: every list get_dc_list returns with success, from explicit servers,
\* from the automatic lookup of "*" or from the automatic lookup made when
\* there is no token, is free of duplicates and has its IPv4 entries first.
C37_ReturnedListDedupedIpv4First ==
    (gd.pc = "done" /\ gd.status = "NT_STATUS_OK") =>
        /\ NoDuplicates(gd.ip_list)
        /\ Ipv4First(gd.ip_list)

\* C38: get_dc_list makes the automatic lookup once at most, and the second
\* pass stores no more entries in the result array than the first pass
\* counted, whatever the tokens, "*" more than once included.
C38_OneLookupWithinCapacity ==
    gd.pc # "idle" =>
        /\ gd.auto_lookups <= 1
        /\ gd.path = "tokens" => gd.written <= gd.num_addresses
        /\ gd.pc # "crashed"

\* C39: in every state of a name_queries request
\* 0 <= num_received <= num_sent <= num_addrs, and every sub-query that was
\* started has a destination index below num_addrs, also for a request with
\* no destination at all
C39_CountersWithinDestinations ==
    nqs.pc # "idle" =>
        /\ 0 <= nqs.num_received
        /\ nqs.num_received <= nqs.num_sent
        /\ nqs.num_sent <= nqs.num_addrs
        /\ \A k \in 1..Len(nqs.started) : nqs.started[k].idx < nqs.num_addrs
        /\ nqs.pc # "crashed"

\* the query was completed by a response accepted as a positive answer and
\* its result has been collected
CompletedByPositiveAnswer ==
    /\ nq.pc = "received"
    /\ nq.by = "response"
    /\ PositiveResponse(nq.last)

\* a positive answer brought an address that is not zero
NonZeroArrived == \E k \in 1..Len(nq.arrived) : ~is_zero_addr(nq.arrived[k])

\* C40 as stated: a name query completed by a response accepted as a positive
\* answer returns success with at least one address, never NT_STATUS_NOT_FOUND,
\* also when every record of the answer is a zero address or a duplicate.
C40_PositiveAnswerNeverNotFound ==
    CompletedByPositiveAnswer =>
        /\ nq.ret.status = "NT_STATUS_OK"
        /\ Len(nq.ret.addrs) >= 1

\* C40 amended: a name query completed by a response accepted as a positive
\* answer returns success with at least one address, none of them zero, when
\* the positive answers brought an address that is not zero, and
\* NT_STATUS_NOT_FOUND when they brought zero addresses only.
C40_PositiveAnswerNeedsAddress ==
    CompletedByPositiveAnswer =>
        IF NonZeroArrived
        THEN /\ nq.ret.status = "NT_STATUS_OK"
             /\ Len(nq.ret.addrs) >= 1
             /\ \A k \in 1..Len(nq.ret.addrs) : ~is_zero_addr(nq.ret.addrs[k])
        ELSE /\ nq.ret.status = "NT_STATUS_NOT_FOUND"
             /\ nq.ret.addrs = <<>>

\* a broadcast query for a name is ended early by a unique record whose
\* address is zero, and returns NT_STATUS_NOT_FOUND
C40_Witness ==
    /\ CompletedByPositiveAnswer
    /\ nq.bcast
    /\ ~nq.bcast_star_query
    /\ nq.last_unique
    /\ nq.arrived = <<Zero4>>
    /\ nq.ret.status = "NT_STATUS_NOT_FOUND"

====
